---- MODULE Spec2Model ----
(***************************************************************************)
(* A model of go-webdav: the lock manager (lock.go), the path predicates   *)
(* (path package), the If-header condition evaluator (cond package), the   *)
(* in-memory filesystem (memfs) and the method dispatcher (webdav.go).     *)
(*                                                                         *)
(* Strings the code inspects character by character (paths) are sequences  *)
(* of one-character strings, so that "/d/f" is <<"/","d","/","f">>.        *)
(* Time is counted in seconds.                                             *)
(***************************************************************************)
EXTENDS Integers, Sequences, FiniteSets, TLC

(***************************************************************************)
(* Bounds of the model.                                                    *)
(***************************************************************************)
\* The clock stops advancing at MaxNow.
MaxNow == 30
\* The clock advances by TickStep seconds at a time.
TickStep == 10
\* No lock is asked for while the manager stores MaxLocks locks.
MaxLocks == 2
\* The server is observed until MaxRequests requests have changed its state.
MaxRequests == 2

\* The length of the If header texts that are enumerated.
MaxHeaderLen == 4
\* The goroutines that call the lock manager at once.
MaxProcs == 2

(***************************************************************************)
(* Program constants.                                                      *)
(***************************************************************************)
minLockDuration == 20
maxLockDuration == 300

VARIABLES
    now,      \* the wall clock, time.Now()
    locks,    \* lockmaster.locks : token -> lock
    files,    \* memfs.files : path -> memfile
    issued,   \* history: the token of the lock most recently returned by
              \* createLock and the duration that was asked for, kept while
              \* that lock is stored and was neither refreshed nor unlocked
    resp,     \* the last call, or the last request that changed the state,
              \* and what it returned
    served,   \* the number of requests that changed the state
    header,   \* the text of the If header the client sends, when the
              \* requests are made with the header as text
    calls,    \* goroutine -> the call it makes, its position in it and
              \* what it returned, when calls run concurrently
    mutex,    \* lockmaster.m: the goroutine holding it, 0 when unlocked
    lock_m,   \* lock.m of the one lock record whose fields goroutines read
              \* and write at once: the goroutine holding it, 0 when unlocked
    history   \* history: the lock map the concurrent calls started on,
              \* and their invocations and returns in real-time order

vars == <<now, locks, files, issued, resp, served, header, calls, mutex, lock_m, history>>

(***************************************************************************)
(* strings / path (standard library), on sequences of characters.          *)
(***************************************************************************)
HasPrefix(s, prefix) ==
    /\ Len(prefix) <= Len(s)
    /\ SubSeq(s, 1, Len(prefix)) = prefix

HasSuffix(s, suffix) ==
    /\ Len(suffix) <= Len(s)
    /\ SubSeq(s, Len(s) - Len(suffix) + 1, Len(s)) = suffix

\* len(strings.Split(s, "/")): one more than the number of separators.
SplitLen(s) == Cardinality({i \in 1..Len(s) : s[i] = "/"}) + 1

\* path.Clean for names without "." and ".." elements: repeated slashes are
\* collapsed, a trailing slash is dropped (except for the root), "" is ".".
RECURSIVE Squeeze(_)
Squeeze(s) ==
    IF Len(s) <= 1 THEN s
    ELSE IF s[1] = "/" /\ s[2] = "/" THEN Squeeze(Tail(s))
    ELSE <<s[1]>> \o Squeeze(Tail(s))

Clean(s) ==
    LET q == Squeeze(s)
    IN  IF q = <<>> THEN <<".">>
        ELSE IF Len(q) > 1 /\ q[Len(q)] = "/" THEN SubSeq(q, 1, Len(q) - 1)
        ELSE q

\* path.Dir: everything up to the last slash, cleaned.
LastSlash(s) ==
    LET idx == {i \in 1..Len(s) : s[i] = "/"}
    IN  IF idx = {} THEN 0 ELSE CHOOSE i \in idx : \A j \in idx : j <= i

Dir(s) == Clean(SubSeq(s, 1, LastSlash(s)))

\* path.Join(a, b): empty elements are ignored, the result is cleaned.
Join(a, b) ==
    IF a = <<>> THEN (IF b = <<>> THEN <<>> ELSE Clean(b))
    ELSE IF b = <<>> THEN Clean(a)
    ELSE Clean(a \o <<"/">> \o b)

(***************************************************************************)
(* The paths of the model: "/", "/d", "/d/f" and "/de". "/d" is a string   *)
(* prefix of "/de" without being its ancestor.                             *)
(***************************************************************************)
Root == <<"/">>
PathD == <<"/", "d">>
PathDF == <<"/", "d", "/", "f">>
PathDE == <<"/", "d", "e">>
Paths == {Root, PathD, PathDF, PathDE}

(***************************************************************************)
(* Package path: InTree and Included.                                      *)
(***************************************************************************)
InTree(path, subtree) ==
    IF path = subtree THEN TRUE
    ELSE LET st == IF HasSuffix(subtree, <<"/">>) THEN subtree ELSE subtree \o <<"/">>
         IN  HasPrefix(path, st)

\* Included returns (name relative to subtree, ok).
Included(fn, subtree, depth) ==
    IF fn = subtree THEN [name |-> <<>>, ok |-> TRUE]
    ELSE IF ~InTree(fn, subtree) THEN [name |-> <<>>, ok |-> FALSE]
    ELSE LET rel == Clean(SubSeq(fn, Len(subtree) + 1, Len(fn)))
             fd == SplitLen(rel)
         IN  IF depth >= 0 /\ fd > depth
             THEN [name |-> <<>>, ok |-> FALSE]
             ELSE [name |-> rel, ok |-> TRUE]

(***************************************************************************)
(* The data-model relation of the design: a is included in (b, depth) iff  *)
(* a is in-tree of b and at most depth path segments below it (depth -1    *)
(* means unbounded). Segments are counted on the cleaned paths.            *)
(***************************************************************************)
Segments(p) == IF p = Root THEN 0 ELSE Cardinality({i \in 1..Len(p) : p[i] = "/"})

TreeAncestor(b, a) ==
    \/ a = b
    \/ b = Root
    \/ /\ Len(b) < Len(a)
       /\ SubSeq(a, 1, Len(b)) = b
       /\ a[Len(b) + 1] = "/"

IncludedIn(a, b, depth) ==
    /\ TreeAncestor(b, a)
    /\ depth < 0 \/ Segments(a) - Segments(b) <= depth

(***************************************************************************)
(* lock.go: the lock record and the lock manager. The operations are       *)
(* functions of the lock map m they are applied to; they return the map    *)
(* they leave behind together with their result.                           *)
(***************************************************************************)
NoLock == [token |-> "none"]

\* A faulty expired, which lets every lock live maxLockDuration whatever its
\* duration: C4_Expiration tells it from expired.
expiredAtMax(l) == now > l.modified + maxLockDuration

\* lock.expired: time.Now().After(l.modified.Add(l.duration))
expired(l) == now > l.modified + l.duration

\* The clamp at the head of createLock and refreshLock.
clampDuration(duration) ==
    IF duration < minLockDuration THEN minLockDuration
    ELSE IF duration > maxLockDuration THEN maxLockDuration
    ELSE duration

\* lockmaster.generateToken: "urn:uuid:%x-%x-280885-%x" of two draws of a
\* generator seeded with the clock reading, and the clock reading.
generateToken == [seed |-> now, stamp |-> now]

Without(m, gone) == [t \in DOMAIN m \ gone |-> m[t]]

Store(m, t, l) == [u \in DOMAIN m \cup {t} |-> IF u = t THEN l ELSE m[u]]

liveIn(m) == {t \in DOMAIN m : ~expired(m[t])}

expiredIn(m) == DOMAIN m \ liveIn(m)

\* A faulty isLocked, which answers by the token alone: C3_LockCoverage tells
\* it from lmIsLocked.
lmIsLockedAnyPath(m, p, t) ==
    IF t \notin DOMAIN m \/ expired(m[t])
    THEN [ok |-> FALSE, m |-> Without(m, {t})]
    ELSE [ok |-> TRUE, m |-> m]

\* lockmaster.isLocked
lmIsLocked(m, p, t) ==
    IF t \notin DOMAIN m \/ expired(m[t])
    THEN [ok |-> FALSE, m |-> Without(m, {t})]
    ELSE [ok |-> Included(p, m[t].path, m[t].depth).ok, m |-> m]

\* A faulty getLockForPath, which deletes no lock: C27_ExpirationLazy tells
\* it from lmGetLockForPath.
lmGetLockForPathKeeps(m, p) ==
    LET hits == {t \in liveIn(m) : Included(p, m[t].path, m[t].depth).ok}
    IN  IF hits = {} THEN {[found |-> FALSE, tok |-> <<>>, m |-> m]}
        ELSE {[found |-> TRUE, tok |-> <<t>>, m |-> m] : t \in hits}

\* lockmaster.getLockForPath: the map is iterated in an unspecified order
\* until a live lock including p is met; the expired locks met on the way
\* are deleted. found is FALSE when nil is returned.
lmGetLockForPath(m, p) ==
    LET hits == {t \in liveIn(m) : Included(p, m[t].path, m[t].depth).ok}
    IN  IF hits = {}
        THEN {[found |-> FALSE, tok |-> <<>>, m |-> Without(m, expiredIn(m))]}
        ELSE {[found |-> TRUE, tok |-> <<t>>, m |-> Without(m, gone)] :
                  t \in hits, gone \in SUBSET expiredIn(m)}

\* A faulty check, which looks for a lock covering the path and not for one
\* within the region asked for: C34_UniqueCoveringLock tells it from crosses.
crossesOneWay(p, depth, l) == Included(p, l.path, l.depth).ok

\* The two checks in the loop of createLock, against one live lock l.
crosses(p, depth, l) ==
    \/ Included(p, l.path, l.depth).ok
    \/ Included(l.path, p, depth).ok

createLockBlocked(m, p, depth) == \E t \in liveIn(m) : crosses(p, depth, m[t])

newLock(owner, p, depth, duration) ==
    [token |-> generateToken, depth |-> depth, owner |-> owner,
     duration |-> duration, modified |-> now, path |-> p]

\* lockmaster.createLock: it fails at the first crossing live lock the loop
\* meets, the expired locks met before it being deleted; else every expired
\* lock is deleted and the new lock is stored under its token.
lmCreateLock(m, owner, p, depth, duration) ==
    IF createLockBlocked(m, p, depth)
    THEN {[ok |-> FALSE, tok |-> <<>>, m |-> Without(m, gone)] : gone \in SUBSET expiredIn(m)}
    ELSE {[ok |-> TRUE, tok |-> <<generateToken>>,
           m |-> Store(Without(m, expiredIn(m)), generateToken,
                     newLock(owner, p, depth, clampDuration(duration)))]}

\* A faulty refresh, which touches the lock and keeps its duration:
\* C5_Refresh tells it from refreshed.
refreshedKeepsDuration(l, duration) == [l EXCEPT !.modified = now]

\* l.duration = duration; l.touch()
refreshed(l, duration) == [l EXCEPT !.duration = duration, !.modified = now]

\* A faulty refreshLock, which does not ask l.expired(): C38_LazyExpiry tells
\* it from lmRefreshLock.
lmRefreshLockOfExpired(m, tok, p, duration) ==
    IF tok \notin DOMAIN m THEN [ok |-> FALSE, m |-> m]
    ELSE IF ~Included(p, m[tok].path, m[tok].depth).ok THEN [ok |-> FALSE, m |-> m]
    ELSE [ok |-> TRUE, m |-> [m EXCEPT ![tok] = refreshed(@, clampDuration(duration))]]

\* lockmaster.refreshLock
lmRefreshLock(m, tok, p, duration) ==
    IF tok \notin DOMAIN m THEN [ok |-> FALSE, m |-> m]
    ELSE IF expired(m[tok]) THEN [ok |-> FALSE, m |-> Without(m, {m[tok].token})]
    ELSE IF ~Included(p, m[tok].path, m[tok].depth).ok THEN [ok |-> FALSE, m |-> m]
    ELSE [ok |-> TRUE, m |-> [m EXCEPT ![tok] = refreshed(@, clampDuration(duration))]]

\* A faulty unlock, which deletes nothing: C23_LockFailureCleanup tells it
\* from lmUnlock.
lmUnlockKeeps(m, t) == m

\* lockmaster.unlock
lmUnlock(m, t) == Without(m, {t})

(***************************************************************************)
(* memfs: the in-memory filesystem. A memfile is a record: dir, data (the  *)
(* content, a sequence of bytes), lastModified (FileInfo.LastModified) and *)
(* p (the property map). The operations are functions of the file map F.   *)
(***************************************************************************)
\* The zero time.Time a new FileInfo carries as LastModified.
ZeroTime == -1

\* newMemFile: only Created is set in the FileInfo; the property map is empty.
newMemFile(dir) == [dir |-> dir, data |-> <<>>, lastModified |-> ZeroTime, p |-> <<>>]

\* NewMemFS: the file map holds the root directory.
NewMemFS == [f \in {Root} |-> newMemFile(TRUE)]

\* memfs.ForPath: the path is cleaned and must be absolute.
ForPath(p) ==
    LET c == Clean(p)
    IN  IF c[1] # "/" THEN [err |-> "BadPath", path |-> c]
        ELSE [err |-> "", path |-> c]

\* memp.Lookup / internalLookup succeed.
Lookup(F, p) == p \in DOMAIN F

\* memp.Mkdir
Mkdir(F, p) ==
    IF Lookup(F, p) THEN [err |-> "Conflict", files |-> F]
    ELSE IF ~Lookup(F, Dir(p)) THEN [err |-> "MissingParent", files |-> F]
    ELSE [err |-> "", files |-> Store(F, p, newMemFile(TRUE))]

\* memp.Create
Create(F, p) ==
    IF Lookup(F, p) THEN [err |-> "Conflict", files |-> F]
    ELSE IF ~Lookup(F, Dir(p)) THEN [err |-> "MissingParent", files |-> F]
    ELSE [err |-> "", files |-> Store(F, p, newMemFile(FALSE))]

\* memp.Remove
Remove(F, p) ==
    IF ~Lookup(F, p) THEN [err |-> "NotFound", files |-> F]
    ELSE IF F[p].dir THEN [err |-> "IsDir", files |-> F]
    ELSE [err |-> "", files |-> Without(F, {p})]

\* memp.removeSubtree
removeSubtree(F, subtree) == Without(F, {q \in DOMAIN F : InTree(q, subtree)})

\* memp.RecursiveRemove: the map of per-path errors is empty on success.
RecursiveRemove(F, p) ==
    IF ~Lookup(F, p) THEN [err |-> "NotFound", files |-> F]
    ELSE IF ~F[p].dir THEN [err |-> "IsNotDir", files |-> F]
    ELSE [err |-> "", files |-> removeSubtree(F, p)]

\* memfile.clone: a new memfile with the data and the properties copied.
clone(f) == [newMemFile(f.dir) EXCEPT !.data = f.data, !.p = f.p]

\* The loop of CopyTo over the entries of F included in (src, depth): each
\* is stored (MOVE: the file itself, its old name deleted; COPY: its clone)
\* under the destination joined with its name relative to src.
copyEntries(F, src, dst, depth, move) ==
    LET inc == {q \in DOMAIN F : Included(q, src, depth).ok}
        nn(q) == Join(dst, Included(q, src, depth).name)
        names == {nn(q) : q \in inc}
        kept == IF move THEN DOMAIN F \ inc ELSE DOMAIN F
    IN  [r \in kept \cup names |->
            IF r \in names
            THEN LET q == CHOOSE q \in inc : nn(q) = r
                 IN  IF move THEN F[q] ELSE clone(F[q])
            ELSE F[r]]

\* memp.CopyTo(dst, {Overwrite, Move, Depth})
CopyTo(F, src, dst, overwrite, move, depth) ==
    IF src = dst THEN [err |-> "SameFile", newf |-> FALSE, files |-> F]
    ELSE IF ~Lookup(F, src) THEN [err |-> "NotFound", newf |-> FALSE, files |-> F]
    ELSE IF F[src].dir /\ move /\ depth >= 0 THEN [err |-> "IsDir", newf |-> FALSE, files |-> F]
    ELSE IF ~Lookup(F, Dir(dst)) THEN [err |-> "MissingParent", newf |-> FALSE, files |-> F]
    ELSE IF Lookup(F, dst) /\ ~overwrite THEN [err |-> "DestExists", newf |-> FALSE, files |-> F]
    ELSE LET G == IF Lookup(F, dst) THEN removeSubtree(F, dst) ELSE F
         IN  [err |-> "", newf |-> ~Lookup(F, dst),
              files |-> copyEntries(G, src, dst, depth, move)]

\* memfile.PatchProp: every set is applied, then every remove.
PatchProp(f, set, remove) ==
    LET added == [k \in DOMAIN f.p \cup DOMAIN set |-> IF k \in DOMAIN set THEN set[k] ELSE f.p[k]]
    IN  [f EXCEPT !.p = Without(added, DOMAIN remove)]

\* memfile.Stat: Size is the length of the data.
Stat(f) == [Size |-> Len(f.data), LastModified |-> f.lastModified]

\* A faulty Truncate, which keeps the data: C8_PutResult tells it from
\* Truncate.
TruncateKeepsData(f) == [f EXCEPT !.lastModified = now]

\* memfile.Truncate
Truncate(f) == [f EXCEPT !.data = <<>>, !.lastModified = now]

\* memfileh.Write at position 0 of a handle just opened: nothing is done for
\* an empty slice; the data is resized to hold b when it is shorter.
Write(f, b) ==
    IF Len(b) = 0 THEN f
    ELSE [f EXCEPT !.data = b \o SubSeq(f.data, Len(b) + 1, Len(f.data)),
                   !.lastModified = now]

(***************************************************************************)
(* strconv.Atoi and strings.TrimPrefix, on sequences of characters.        *)
(***************************************************************************)
Digits == {"0", "1", "2", "3", "4", "5", "6", "7", "8", "9"}

DigitVal(c) ==
    CASE c = "0" -> 0 [] c = "1" -> 1 [] c = "2" -> 2 [] c = "3" -> 3
      [] c = "4" -> 4 [] c = "5" -> 5 [] c = "6" -> 6 [] c = "7" -> 7
      [] c = "8" -> 8 [] c = "9" -> 9

RECURSIVE ParseUint(_)
ParseUint(s) ==
    IF s = <<>> THEN 0
    ELSE 10 * ParseUint(SubSeq(s, 1, Len(s) - 1)) + DigitVal(s[Len(s)])

\* strconv.Atoi: an optional sign followed by at least one decimal digit.
Atoi(s) ==
    LET signed == s # <<>> /\ s[1] \in {"-", "+"}
        body == IF signed THEN Tail(s) ELSE s
    IN  IF body = <<>> \/ \E i \in 1..Len(body) : body[i] \notin Digits
        THEN [ok |-> FALSE, n |-> 0]
        ELSE [ok |-> TRUE,
              n |-> IF signed /\ s[1] = "-" THEN 0 - ParseUint(body) ELSE ParseUint(body)]

\* strings.TrimPrefix(s, prefix)
TrimPrefix(s, prefix) ==
    IF HasPrefix(s, prefix) THEN SubSeq(s, Len(prefix) + 1, Len(s)) ELSE s

(***************************************************************************)
(* Package cond. An IfTag is a sequence of lists; a list is a record       *)
(* Resource (a path, <<>> when the list has none) and Conditions; a        *)
(* condition is a record Not, State (<<>> for the empty string, else <<t>> *)
(* for the token t) and ETag (<<>> for the empty string).                  *)
(***************************************************************************)
\* etag(fi): "<Size>-<LastModified>"
etag(fi) == <<fi.Size, fi.LastModified>>

\* fsEnv.ETag: the empty string when the resource cannot be looked up.
ETag(F, r) ==
    LET fp == ForPath(r)
    IN  IF fp.err # "" THEN <<>>
        ELSE IF ~Lookup(F, fp.path) THEN <<>>
        ELSE etag(Stat(F[fp.path]))

\* Condition.Eval, with fsEnv.Locked being lockmaster.isLocked.
ConditionEval(c, F, m, r) ==
    IF c.State # <<>>
    THEN LET il == lmIsLocked(m, r, c.State[1])
         IN  [ok |-> (il.ok # c.Not), m |-> il.m]
    ELSE [ok |-> ((ETag(F, r) = c.ETag) # c.Not), m |-> m]

\* The loop of ConditionList.Eval over the conditions cs.
RECURSIVE ConditionsEval(_, _, _, _)
ConditionsEval(cs, F, m, r) ==
    IF cs = <<>> THEN [ok |-> TRUE, m |-> m]
    ELSE LET e == ConditionEval(Head(cs), F, m, r)
         IN  IF ~e.ok THEN [ok |-> FALSE, m |-> e.m]
             ELSE ConditionsEval(Tail(cs), F, e.m, r)

\* A faulty ConditionList.Eval, which evaluates every list against the default
\* resource: C21_ConditionEvaluation tells it from ConditionListEval.
ConditionListEvalOfDefault(l, F, m, rdef) ==
    ConditionsEval(l.Conditions, F, m, rdef)

\* ConditionList.Eval
ConditionListEval(l, F, m, rdef) ==
    ConditionsEval(l.Conditions, F, m, IF l.Resource # <<>> THEN l.Resource ELSE rdef)

\* IfTag.Eval
RECURSIVE IfTagEval(_, _, _, _)
IfTagEval(lists, F, m, rdef) ==
    IF lists = <<>> THEN [ok |-> FALSE, m |-> m]
    ELSE LET e == ConditionListEval(Head(lists), F, m, rdef)
         IN  IF e.ok THEN [ok |-> TRUE, m |-> e.m]
             ELSE IfTagEval(Tail(lists), F, e.m, rdef)

\* The tokens of the conditions cs, in order.
RECURSIVE StatesOf(_)
StatesOf(cs) ==
    IF cs = <<>> THEN <<>>
    ELSE (IF Head(cs).State # <<>> THEN Head(cs).State ELSE <<>>) \o StatesOf(Tail(cs))

\* IfTag.GetAllTokens
RECURSIVE GetAllTokens(_)
GetAllTokens(lists) ==
    IF lists = <<>> THEN <<>>
    ELSE StatesOf(Head(lists).Conditions) \o GetAllTokens(Tail(lists))

\* A faulty GetSingleState, which takes the token of a negated condition:
\* C24_LockRefresh tells it from GetSingleState.
GetSingleStateOfNot(lists) ==
    IF Len(lists) # 1 THEN [ok |-> FALSE, tok |-> <<>>]
    ELSE IF Len(lists[1].Conditions) # 1 THEN [ok |-> FALSE, tok |-> <<>>]
    ELSE IF lists[1].Conditions[1].ETag # <<>> THEN [ok |-> FALSE, tok |-> <<>>]
    ELSE [ok |-> TRUE, tok |-> lists[1].Conditions[1].State]

\* IfTag.GetSingleState
GetSingleState(lists) ==
    IF Len(lists) # 1 THEN [ok |-> FALSE, tok |-> <<>>]
    ELSE IF Len(lists[1].Conditions) # 1 THEN [ok |-> FALSE, tok |-> <<>>]
    ELSE IF lists[1].Conditions[1].ETag # <<>> THEN [ok |-> FALSE, tok |-> <<>>]
    ELSE IF lists[1].Conditions[1].Not THEN [ok |-> FALSE, tok |-> <<>>]
    ELSE [ok |-> TRUE, tok |-> lists[1].Conditions[1].State]


(***************************************************************************)
(* The lexer of the If header. A lexer is a record input (the runes of the *)
(* header), pos and last (the token peeked last); the operations return    *)
(* the lexer they leave. A rune is a string of one character; the special  *)
(* tokens EOF and Not are strings that are no rune. A text is a sequence   *)
(* of runes, <<>> for the empty string.                                    *)
(***************************************************************************)
EOF == "EOF"

Not == "Not"

newLex(s) == [input |-> s, pos |-> -1, last |-> ""]

\* lex.p
lexp(l, num) ==
    IF l.pos + num < 0 \/ l.pos + num >= Len(l.input) THEN EOF
    ELSE l.input[l.pos + num + 1]

\* lex.skipWhitespace; " " is the only space among the runes used.
RECURSIVE skipWhitespace(_)
skipWhitespace(l) ==
    IF lexp(l, 1) = " " THEN skipWhitespace([l EXCEPT !.pos = @ + 1]) ELSE l

\* lex.peek: the token is the field last of the lexer returned.
peek(l) ==
    LET at(sk) ==
            [sk EXCEPT !.last = IF lexp(sk, 1) = "N" /\ lexp(sk, 2) = "o" /\ lexp(sk, 3) = "t"
                                THEN Not ELSE lexp(sk, 1)]
    IN  at(skipWhitespace(l))

\* lex.consume: how far it moves depends on the token peeked last.
consume(l) ==
    IF l.last = Not THEN [l EXCEPT !.pos = @ + 3]
    ELSE IF l.last # EOF THEN [l EXCEPT !.pos = @ + 1]
    ELSE l

\* lex.tokenText
tokenText(r) == IF r = Not THEN <<"N", "o", "t">> ELSE <<r>>

\* lex.consumeIf, the runes accepted being those not in stops: the text
\* read, the error (io.EOF at the end of the input) and the lexer left.
RECURSIVE consumeIf(_, _, _)
consumeIf(l, stops, res) ==
    LET on(v) ==
            IF v = EOF THEN [text |-> res, err |-> "EOF", l |-> l]
            ELSE IF v \in stops THEN [text |-> res, err |-> "", l |-> l]
            ELSE consumeIf(consume(l), stops, res \o tokenText(v))
    IN  on(lexp(l, 1))

\* lex.consumeUntil
consumeUntil(l, stop) ==
    LET eat(ci) == IF ci.err # "" THEN ci ELSE [ci EXCEPT !.l = consume(ci.l)]
    IN  eat(consumeIf(l, {stop}, <<>>))

(***************************************************************************)
(* The parser of the If header. Here State, ETag and Resource are texts.   *)
(***************************************************************************)
\* parseCondition: the condition, the error and the lexer left.
parseCondition(l) ==
    LET etagged(not, et) ==
            [c |-> [Not |-> not, State |-> <<>>, ETag |-> et.text],
             err |-> IF et.text = <<>> THEN "empty etag" ELSE et.err, l |-> et.l]
        stated(not, ci, tt) ==
            [c |-> [Not |-> not, State |-> tt, ETag |-> <<>>],
             err |-> IF tt = <<>> THEN "empty condition" ELSE ci.err, l |-> ci.l]
        state(not, ci) ==
            stated(not, ci, IF Len(ci.text) >= 2 /\ ci.text[1] = "<"
                            THEN SubSeq(ci.text, 2, Len(ci.text) - 1) ELSE ci.text)
        from(not, at) ==
            IF at.last = "[" THEN etagged(not, consumeUntil(consume(at), "]"))
            ELSE state(not, consumeIf(at, {")", " "}, <<>>))
        start(first) ==
            from(first.last = Not, IF first.last = Not THEN peek(consume(first)) ELSE first)
    IN  start(peek(l))

\* The loop of parseList over the conditions, l being the lexer after the
\* peek that gives the token tested.
RECURSIVE parseConditions(_, _)
parseConditions(l, cs) ==
    LET next(pc) ==
            IF pc.err # ""
            THEN [cs |-> Append(cs, pc.c), err |-> "could not parse condition", l |-> pc.l]
            ELSE parseConditions(peek(pc.l), Append(cs, pc.c))
    IN  IF l.last = ")" \/ l.last = EOF THEN [cs |-> cs, err |-> "", l |-> l]
        ELSE next(parseCondition(l))

\* parseList: the list, the error and the lexer left.
parseList(l) ==
    LET res(r, cs) == [Resource |-> r, Conditions |-> cs]
        closed(r, loop) ==
            IF loop.err # "" THEN [list |-> res(r, loop.cs), err |-> loop.err, l |-> loop.l]
            ELSE IF loop.l.last # ")"
            THEN [list |-> res(r, loop.cs), err |-> "expected ) got", l |-> loop.l]
            ELSE [list |-> res(r, loop.cs), err |-> "", l |-> consume(loop.l)]
        opened(r, at) ==
            IF at.last # "(" THEN [list |-> res(r, <<>>), err |-> "expected ( got", l |-> at]
            ELSE closed(r, parseConditions(peek(consume(at)), <<>>))
        tagged(rt) ==
            IF rt.err # "" \/ rt.text = <<>>
            THEN [list |-> res(rt.text, <<>>), err |-> "could not parse resource", l |-> rt.l]
            ELSE opened(rt.text, peek(rt.l))
        start(first) ==
            IF first.last = "<" THEN tagged(consumeUntil(consume(first), ">"))
            ELSE opened(<<>>, first)
    IN  start(peek(l))

\* The loop of ParseIfTag over the lists.
RECURSIVE parseLists(_, _)
parseLists(l, lists) ==
    LET next(pl) ==
            IF pl.err # "" THEN [err |-> "could not parse list", Lists |-> Append(lists, pl.list)]
            ELSE parseLists(pl.l, Append(lists, pl.list))
    IN  IF peek(l).last = EOF THEN [err |-> "", Lists |-> lists]
        ELSE next(parseList(l))

\* ParseIfTag
ParseIfTag(s) == parseLists(newLex(s), <<>>)

\* url.Parse of a resource without scheme, query, fragment, escape and
\* control character: after "//" the host runs to the next "/", and the
\* rest is the path.
urlParse(r) ==
    IF Len(r) >= 2 /\ r[1] = "/" /\ r[2] = "/"
    THEN LET rest == SubSeq(r, 3, Len(r))
             stop == IF \E i \in 1..Len(rest) : rest[i] = "/"
                     THEN CHOOSE i \in 1..Len(rest) :
                              rest[i] = "/" /\ \A j \in 1..(i - 1) : rest[j] # "/"
                     ELSE Len(rest) + 1
         IN  [Host |-> SubSeq(rest, 1, stop - 1), Path |-> SubSeq(rest, stop, Len(rest))]
    ELSE [Host |-> <<>>, Path |-> r]

\* IfTag.RewriteHosts, h being the text of the host of the request: the
\* resources are replaced by their paths; the error is "Bad host".
RewriteHosts(lists, h) ==
    IF \E i \in 1..Len(lists) :
           /\ lists[i].Resource # <<>>
           /\ urlParse(lists[i].Resource).Host \notin {<<>>, h}
    THEN [err |-> "Bad host", Lists |-> lists]
    ELSE [err |-> "",
          Lists |-> [i \in 1..Len(lists) |->
                        IF lists[i].Resource = <<>> THEN lists[i]
                        ELSE [lists[i] EXCEPT !.Resource = urlParse(@).Path]]]
(***************************************************************************)
(* webdav.go. A request is a record: method, url (URL path), the headers   *)
(* Depth, If, Timeout, Overwrite, Destination and Lock-Token, and body.    *)
(*   If          [present, err, Lists]: the header is absent, or fails to  *)
(*               parse (err), or parses to the IfTag Lists;                *)
(*   Timeout     the comma-separated entries of the header;                *)
(*   Destination <<>> when absent, else <<[Host, Path]>> as url.Parse      *)
(*               returns it;                                               *)
(*   Lock-Token  <<>> when absent, else <<t>> for "<t>";                   *)
(*   body        [kind |-> "data", data] for raw bytes, or the document    *)
(*               the XML decoder reads: "lockinfo", "propfind",            *)
(*               "proppatch", or "malformed".                              *)
(* A handler is a function of the request, the file map F and the lock map *)
(* m; it returns the set of outcomes it can produce: the status code, the  *)
(* maps it leaves behind, the Lock-Token response header and the body.     *)
(***************************************************************************)
Host == "h"

infinity == <<"i", "n", "f", "i", "n", "i", "t", "y">>
Infinity == <<"I", "n", "f", "i", "n", "i", "t", "y">>
Infinite == <<"I", "n", "f", "i", "n", "i", "t", "e">>
SecondDash == <<"S", "e", "c", "o", "n", "d", "-">>
Dumpz == <<"/", "d", "u", "m", "p", "z">>

\* Error.HTTPCode (errors.go)
HTTPCode(e) ==
    CASE e \in {"BadPath", "BadDepth", "BadDest", "BadPropfind", "BadProppatch", "BadLock"} -> 400
      [] e = "SameFile" -> 403
      [] e = "NotFound" -> 404
      [] e \in {"NotAllowed", "IsDir", "IsNotDir"} -> 405
      [] e \in {"Conflict", "MissingParent"} -> 409
      [] e = "DestExists" -> 412
      [] e = "UnsupportedType" -> 415
      [] e = "Locked" -> 423
      [] e = "BadHost" -> 502

\* The errors that are webdav Error values; any other error is answered 500.
WebdavErrors ==
    {"BadPath", "BadDepth", "BadDest", "BadPropfind", "BadProppatch", "BadLock",
     "SameFile", "NotFound", "NotAllowed", "IsDir", "IsNotDir", "Conflict",
     "MissingParent", "DestExists", "UnsupportedType", "Locked", "BadHost"}

Out(code, F, m) == [code |-> code, files |-> F, locks |-> m, token |-> <<>>, body |-> <<>>]

\* WebDAV.errorHeader
errorHeader(e, F, m) == Out(IF e \in WebdavErrors THEN HTTPCode(e) ELSE 500, F, m)

\* parseDepth
parseDepth(dh) ==
    IF dh = infinity \/ dh = Infinity \/ dh = <<>> THEN [err |-> "", depth |-> -1]
    ELSE LET a == Atoi(dh)
         IN  IF ~a.ok THEN [err |-> "BadDepth", depth |-> 0]
             ELSE IF a.n < 0 THEN [err |-> "BadDepth", depth |-> 0]
             ELSE [err |-> "", depth |-> a.n]

\* parseTimeout: the first entry that is not "Infinite" and converts wins;
\* the default is one second.
RECURSIVE parseTimeout(_)
parseTimeout(opts) ==
    IF opts = <<>> THEN 1
    ELSE IF Head(opts) = Infinite THEN parseTimeout(Tail(opts))
    ELSE LET d == Atoi(TrimPrefix(SecondDash, Head(opts)))
         IN  IF ~d.ok THEN parseTimeout(Tail(opts)) ELSE d.n

\* parseIfHeader: nil for the empty header; a parse error is not a webdav
\* Error.
parseIfHeader(ih) ==
    IF ~ih.present THEN [err |-> "", nil |-> TRUE, Lists |-> <<>>]
    ELSE IF ih.err THEN [err |-> "could not parse list", nil |-> TRUE, Lists |-> <<>>]
    ELSE [err |-> "", nil |-> FALSE, Lists |-> ih.Lists]

\* strings.SplitN(header, ",", 3): at most three entries are considered.
SplitN3(entries) == SubSeq(entries, 1, IF Len(entries) < 3 THEN Len(entries) ELSE 3)

\* WebDAV.extractContext
extractContext(req) ==
    LET fp == ForPath(req.url)
        d == parseDepth(req.Depth)
        c == parseIfHeader(req.If)
        ctx(e) == [err |-> e, p |-> fp.path, depth |-> d.depth,
                   cond |-> [nil |-> c.nil, Lists |-> c.Lists],
                   timeout |-> parseTimeout(SplitN3(req.Timeout)),
                   overwrite |-> req.Overwrite # <<"F">>]
    IN  IF fp.err # "" THEN ctx(fp.err)
        ELSE IF d.err # "" THEN ctx(d.err)
        ELSE IF c.err # "" THEN ctx(c.err)
        ELSE ctx("")

\* The loop of checkCanWrite over the tokens of the If header.
RECURSIVE anyIsLocked(_, _, _)
anyIsLocked(tokens, p, m) ==
    IF tokens = <<>> THEN [ok |-> FALSE, m |-> m]
    ELSE LET il == lmIsLocked(m, p, Head(tokens))
         IN  IF il.ok THEN [ok |-> TRUE, m |-> il.m]
             ELSE anyIsLocked(Tail(tokens), p, il.m)

\* A faulty checkCanWrite, which does not look at the tokens of the If
\* header: C9_ScenarioS2 tells it from checkCanWrite.
checkCanWriteNoTokens(ctx, p, m) ==
    {[ok |-> ~g.found, m |-> g.m] : g \in lmGetLockForPath(m, p)}

\* WebDAV.checkCanWrite
checkCanWrite(ctx, p, m) ==
    UNION {IF ~g.found THEN {[ok |-> TRUE, m |-> g.m]}
           ELSE IF ctx.cond.nil THEN {[ok |-> FALSE, m |-> g.m]}
           ELSE {anyIsLocked(GetAllTokens(ctx.cond.Lists), p, g.m)} :
           g \in lmGetLockForPath(m, p)}

\* doOptions: the headers are set and nothing else is written.
doOptions(ctx, req, F, m) == {Out(200, F, m)}

\* servePath
servePath(ctx, req, F, m, content) ==
    IF ~Lookup(F, ctx.p) THEN {errorHeader("NotFound", F, m)}
    ELSE IF content /\ F[ctx.p].dir THEN {errorHeader("IsDir", F, m)}
    ELSE {[Out(200, F, m) EXCEPT !.body = IF content THEN F[ctx.p].data ELSE <<>>]}

doGet(ctx, req, F, m) == servePath(ctx, req, F, m, TRUE)

doHead(ctx, req, F, m) == servePath(ctx, req, F, m, FALSE)

doPost(ctx, req, F, m) == doGet(ctx, req, F, m)

\* doDelete past the lock check.
deleteTarget(ctx, F, m) ==
    IF ~Lookup(F, ctx.p) THEN errorHeader("NotFound", F, m)
    ELSE IF ~F[ctx.p].dir
    THEN LET rm == Remove(F, ctx.p)
         IN  IF rm.err # "" THEN errorHeader(rm.err, F, m)
             ELSE Out(200, rm.files, m)
    ELSE LET rr == RecursiveRemove(F, ctx.p)
         IN  IF rr.err = "" THEN Out(204, rr.files, m) ELSE Out(207, rr.files, m)

doDelete(ctx, req, F, m) ==
    {IF ~c.ok THEN errorHeader("Locked", F, c.m) ELSE deleteTarget(ctx, F, c.m) :
        c \in checkCanWrite(ctx, ctx.p, m)}

\* doPut past the lock check.
putTarget(ctx, req, F, m) ==
    IF Lookup(F, ctx.p)
    THEN IF F[ctx.p].dir THEN errorHeader("IsDir", F, m)
         ELSE Out(204, [F EXCEPT ![ctx.p] = Write(Truncate(@), req.body.data)], m)
    ELSE LET cr == Create(F, ctx.p)
         IN  IF cr.err # "" THEN errorHeader("Conflict", F, m)
             ELSE Out(201, [cr.files EXCEPT ![ctx.p] = Write(@, req.body.data)], m)

doPut(ctx, req, F, m) ==
    {IF ~c.ok THEN errorHeader("Locked", F, c.m) ELSE putTarget(ctx, req, F, c.m) :
        c \in checkCanWrite(ctx, ctx.p, m)}

\* doMkcol past the lock check.
mkcolTarget(ctx, req, F, m) ==
    IF Lookup(F, ctx.p) THEN errorHeader("NotAllowed", F, m)
    ELSE IF Len(req.body.data) > 0 THEN errorHeader("UnsupportedType", F, m)
    ELSE LET mk == Mkdir(F, ctx.p)
         IN  IF mk.err # "" THEN errorHeader("Conflict", F, m)
             ELSE Out(201, mk.files, m)

doMkcol(ctx, req, F, m) ==
    {IF ~c.ok THEN errorHeader("Locked", F, c.m) ELSE mkcolTarget(ctx, req, F, c.m) :
        c \in checkCanWrite(ctx, ctx.p, m)}

\* handleCopyOrMove from the Destination header on.
copyOrMoveTo(ctx, req, F, m, move) ==
    IF req.Destination = <<>> THEN {errorHeader("BadDest", F, m)}
    ELSE IF req.Destination[1].Host # Host THEN {errorHeader("BadHost", F, m)}
    ELSE LET dst == ForPath(req.Destination[1].Path)
         IN  IF dst.err # "" THEN {errorHeader("BadDest", F, m)}
             ELSE {IF ~c.ok THEN errorHeader("Locked", F, c.m)
                   ELSE LET cp == CopyTo(F, ctx.p, dst.path, ctx.overwrite, move, ctx.depth)
                        IN  IF cp.err # "" THEN errorHeader(cp.err, F, c.m)
                            ELSE IF cp.newf THEN Out(201, cp.files, c.m)
                            ELSE Out(204, cp.files, c.m) :
                   c \in checkCanWrite(ctx, dst.path, m)}

\* A faulty handleCopyOrMove, which checks the source of a COPY as well:
\* C14_CopyMoveAuthorization tells it from handleCopyOrMove.
handleCopyOrMoveChecksSource(ctx, req, F, m, move) ==
    UNION {IF ~c.ok THEN {errorHeader("Locked", F, c.m)}
           ELSE copyOrMoveTo(ctx, req, F, c.m, move) :
           c \in checkCanWrite(ctx, ctx.p, m)}

handleCopyOrMove(ctx, req, F, m, move) ==
    IF move
    THEN UNION {IF ~c.ok THEN {errorHeader("Locked", F, c.m)}
                ELSE copyOrMoveTo(ctx, req, F, c.m, move) :
                c \in checkCanWrite(ctx, ctx.p, m)}
    ELSE copyOrMoveTo(ctx, req, F, m, move)

doCopy(ctx, req, F, m) == handleCopyOrMove(ctx, req, F, m, FALSE)

doMove(ctx, req, F, m) == handleCopyOrMove(ctx, req, F, m, TRUE)

\* xml.ParsePropFind
ParsePropFind(body) ==
    IF body.kind = "propfind" THEN [err |-> "", PropertyNames |-> body.names]
    ELSE [err |-> "decode", PropertyNames |-> <<>>]

\* doPropfind: getPropValue asks getLockForPath for every file found when
\* DAV::lockdiscovery is requested; each call deletes the expired locks it
\* meets, all of them when it finds no lock for the file.
doPropfind(ctx, req, F, m) ==
    LET pf == ParsePropFind(req.body)
        found == {q \in DOMAIN F : Included(q, ctx.p, ctx.depth).ok}
        asks == \E i \in 1..Len(pf.PropertyNames) : pf.PropertyNames[i] = "DAV::lockdiscovery"
        bare == \E q \in found : \A g \in lmGetLockForPath(m, q) : ~g.found
    IN  IF pf.err # "" THEN {errorHeader("BadPropfind", F, m)}
        ELSE IF ~Lookup(F, ctx.p) THEN {errorHeader("NotFound", F, m)}
        ELSE IF ~asks THEN {Out(207, F, m)}
        ELSE IF bare THEN {Out(207, F, Without(m, expiredIn(m)))}
        ELSE {Out(207, F, Without(m, gone)) : gone \in SUBSET expiredIn(m)}

\* xml.ParsePropPatch: the set and remove blocks are read in order; a name
\* is added to the map of its block and deleted from the other map.
\* A faulty ParsePropPatch, which does not delete a name from the other
\* map, so that a remove wins wherever it stands: C18_PropertyOrder tells it
\* from patchBlocks.
RECURSIVE patchBlocksApart(_, _, _)
patchBlocksApart(blocks, set, remove) ==
    IF blocks = <<>> THEN [Set |-> set, Remove |-> remove]
    ELSE LET b == Head(blocks)
         IN  IF b.kind = "set"
             THEN patchBlocksApart(Tail(blocks), Store(set, b.name, b.value), remove)
             ELSE patchBlocksApart(Tail(blocks), set, Store(remove, b.name, b.value))

RECURSIVE patchBlocks(_, _, _)
patchBlocks(blocks, set, remove) ==
    IF blocks = <<>> THEN [Set |-> set, Remove |-> remove]
    ELSE LET b == Head(blocks)
         IN  IF b.kind = "set"
             THEN patchBlocks(Tail(blocks), Store(set, b.name, b.value), Without(remove, {b.name}))
             ELSE patchBlocks(Tail(blocks), Without(set, {b.name}), Store(remove, b.name, b.value))

ParsePropPatch(body) ==
    IF body.kind = "proppatch"
    THEN [err |-> "", req |-> patchBlocks(body.blocks, <<>>, <<>>)]
    ELSE [err |-> "decode", req |-> [Set |-> <<>>, Remove |-> <<>>]]

\* doProppatch past the lock check.
proppatchTarget(ctx, req, F, m) ==
    LET pp == ParsePropPatch(req.body)
    IN  IF ~Lookup(F, ctx.p) THEN errorHeader("NotFound", F, m)
        ELSE IF pp.err # "" THEN errorHeader("BadProppatch", F, m)
        ELSE Out(204, [F EXCEPT ![ctx.p] = PatchProp(@, pp.req.Set, pp.req.Remove)], m)

doProppatch(ctx, req, F, m) ==
    {IF ~c.ok THEN errorHeader("Locked", F, c.m) ELSE proppatchTarget(ctx, req, F, c.m) :
        c \in checkCanWrite(ctx, ctx.p, m)}

\* xml.ParseLock: an empty body asks for a refresh.
ParseLock(body) ==
    IF body.kind = "data" /\ body.data = <<>> THEN [err |-> "", Refresh |-> TRUE, Owner |-> ""]
    ELSE IF body.kind # "lockinfo" THEN [err |-> "decode", Refresh |-> FALSE, Owner |-> ""]
    ELSE IF ~body.Exclusive THEN [err |-> "must be exclusive", Refresh |-> FALSE, Owner |-> ""]
    ELSE IF body.Shared THEN [err |-> "must not be shared", Refresh |-> FALSE, Owner |-> ""]
    ELSE IF ~body.Write THEN [err |-> "must be write", Refresh |-> FALSE, Owner |-> ""]
    ELSE [err |-> "", Refresh |-> FALSE, Owner |-> body.Owner]

\* A faulty end of doLock, which does not create the missing resource:
\* C10_LockCreate tells it from lockTarget.
lockTargetNoCreate(ctx, refresh, tok, F, m) ==
    [Out(200, F, m) EXCEPT !.token = IF refresh THEN <<>> ELSE tok]

\* doLock once the lock l is held (token tok, lock map m): the Lock-Token
\* header is set for a new lock, and the resource is created when missing.
lockTarget(ctx, refresh, tok, F, m) ==
    LET hdr == IF refresh THEN <<>> ELSE tok
    IN  IF ~Lookup(F, ctx.p)
        THEN LET cr == Create(F, ctx.p)
             IN  IF cr.err # "" THEN errorHeader(cr.err, F, lmUnlock(m, tok[1]))
                 ELSE [Out(201, cr.files, m) EXCEPT !.token = hdr]
        ELSE [Out(200, F, m) EXCEPT !.token = hdr]

doLock(ctx, req, F, m) ==
    LET lr == ParseLock(req.body)
    IN  IF lr.err # "" THEN {errorHeader("BadLock", F, m)}
        ELSE IF ~Lookup(F, Dir(ctx.p)) THEN {errorHeader("MissingParent", F, m)}
        ELSE IF lr.Refresh
        THEN IF ctx.cond.nil THEN {errorHeader("BadLock", F, m)}
             ELSE LET ss == GetSingleState(ctx.cond.Lists)
                  IN  IF ~ss.ok THEN {errorHeader("BadLock", F, m)}
                      ELSE LET rl == lmRefreshLock(m, ss.tok[1], ctx.p, ctx.timeout)
                           IN  IF ~rl.ok THEN {errorHeader("refreshLock", F, rl.m)}
                               ELSE {lockTarget(ctx, TRUE, ss.tok, F, rl.m)}
        ELSE {IF ~cl.ok THEN errorHeader("Locked", F, cl.m)
              ELSE lockTarget(ctx, FALSE, cl.tok, F, cl.m) :
              cl \in lmCreateLock(m, lr.Owner, ctx.p, ctx.depth, ctx.timeout)}

\* doUnlock: no status is written on success. The empty Lock-Token is the
\* token of no lock.
doUnlock(ctx, req, F, m) ==
    IF req.LockToken = <<>> THEN {errorHeader("BadLock", F, m)}
    ELSE LET il == lmIsLocked(m, ctx.p, req.LockToken[1])
         IN  IF ~il.ok THEN {errorHeader("BadLock", F, il.m)}
             ELSE {Out(200, F, lmUnlock(il.m, req.LockToken[1]))}

\* The switch of ServeHTTP on the method.
dispatch(ctx, req, F, m) ==
    CASE req.method = "OPTIONS" -> doOptions(ctx, req, F, m)
      [] req.method = "GET" -> doGet(ctx, req, F, m)
      [] req.method = "HEAD" -> doHead(ctx, req, F, m)
      [] req.method = "POST" -> doPost(ctx, req, F, m)
      [] req.method = "DELETE" -> doDelete(ctx, req, F, m)
      [] req.method = "PUT" -> doPut(ctx, req, F, m)
      [] req.method = "MKCOL" -> doMkcol(ctx, req, F, m)
      [] req.method = "COPY" -> doCopy(ctx, req, F, m)
      [] req.method = "MOVE" -> doMove(ctx, req, F, m)
      [] req.method = "PROPFIND" -> doPropfind(ctx, req, F, m)
      [] req.method = "PROPPATCH" -> doProppatch(ctx, req, F, m)
      [] req.method = "LOCK" -> doLock(ctx, req, F, m)
      [] req.method = "UNLOCK" -> doUnlock(ctx, req, F, m)
      [] OTHER -> {Out(400, F, m)}

\* A faulty ServeHTTP, which evaluates the If header and dispatches the
\* request whatever the result: C7_PreconditionShortCircuit tells it from
\* ServeHTTP.
ServeHTTPWhateverIf(req, F, m) ==
    IF req.url = Dumpz THEN {Out(200, F, m)}
    ELSE LET ctx == extractContext(req)
         IN  IF ctx.err # "" THEN {errorHeader(ctx.err, F, m)}
             ELSE IF ctx.cond.nil THEN dispatch(ctx, req, F, m)
             ELSE dispatch(ctx, req, F, IfTagEval(ctx.cond.Lists, F, m, ctx.p).m)

\* WebDAV.ServeHTTP
ServeHTTP(req, F, m) ==
    IF req.url = Dumpz THEN {Out(200, F, m)}
    ELSE LET ctx == extractContext(req)
         IN  IF ctx.err # "" THEN {errorHeader(ctx.err, F, m)}
             ELSE IF ctx.cond.nil THEN dispatch(ctx, req, F, m)
             ELSE LET ev == IfTagEval(ctx.cond.Lists, F, m, ctx.p)
                  IN  IF ~ev.ok THEN {Out(412, F, ev.m)}
                      ELSE dispatch(ctx, req, F, ev.m)

(***************************************************************************)
(* The state after construction: NewWebDAV(NewMemFS()).                    *)
(***************************************************************************)
\* What resp records of a call of the lock manager ...
Called(op, ok) == [op |-> op, ok |-> ok, code |-> 0, path |-> <<>>, cond |-> FALSE]

\* ... and of a request: the method, the cleaned path, whether an If header
\* was sent, and the status answered.
Answered(req, o) ==
    [op |-> req.method, ok |-> TRUE, code |-> o.code, path |-> Clean(req.url),
     cond |-> req.If.present]

Init ==
    /\ now = 0
    /\ locks = <<>>
    /\ files = NewMemFS
    /\ issued = NoLock
    /\ resp = Called("init", TRUE)
    /\ served = 0
    /\ header = <<>>
    /\ calls = <<>>
    /\ mutex = 0
    /\ lock_m = 0
    /\ history = <<>>

\* Time passes.
Tick ==
    /\ now + TickStep <= MaxNow
    /\ now' = now + TickStep
    /\ UNCHANGED <<locks, files, issued, resp, served, header, calls, mutex, lock_m, history>>

(***************************************************************************)
(* The lock manager on its own, driven by any sequence of calls.           *)
(***************************************************************************)
Owners == {"o1"}
\* Depth as parseDepth returns it: -1 (infinity) or any integer >= 0.
Depths == {-1, 0, 1}
\* Durations asked for, in seconds: below the minimum and above the maximum.
Durations == {1, 400}
\* The tokens calls are made with: those of the stored locks, and one that
\* generateToken never returns.
UnknownToken == [seed |-> 0, stamp |-> 1]
Tokens == DOMAIN locks \cup {UnknownToken}

\* The history is dropped with the lock it is about.
keepIssued(newLocks) ==
    IF issued # NoLock /\ issued.token \in DOMAIN newLocks THEN issued ELSE NoLock

createLock(owner, path, depth, duration) ==
    \E r \in lmCreateLock(locks, owner, path, depth, duration) :
        /\ locks' = r.m
        /\ issued' = IF r.ok
                     THEN [token |-> r.tok[1], requested |-> duration, created |-> now]
                     ELSE keepIssued(r.m)
        /\ resp' = Called("createLock", r.ok)
        /\ UNCHANGED <<now, files, served, header, calls, mutex, lock_m, history>>

refreshLock(tok, path, duration) ==
    LET r == lmRefreshLock(locks, tok, path, duration)
    IN  /\ locks' = r.m
        /\ issued' = IF r.ok /\ issued # NoLock /\ issued.token = tok
                     THEN NoLock
                     ELSE keepIssued(r.m)
        /\ resp' = Called("refreshLock", r.ok)
        /\ UNCHANGED <<now, files, served, header, calls, mutex, lock_m, history>>

unlock(t) ==
    /\ locks' = lmUnlock(locks, t)
    /\ issued' = keepIssued(locks')
    /\ resp' = Called("unlock", TRUE)
    /\ UNCHANGED <<now, files, served, header, calls, mutex, lock_m, history>>

isLocked(p, t) ==
    LET r == lmIsLocked(locks, p, t)
    IN  /\ locks' = r.m
        /\ issued' = keepIssued(r.m)
        /\ resp' = Called("isLocked", r.ok)
        /\ UNCHANGED <<now, files, served, header, calls, mutex, lock_m, history>>

getLockForPath(p) ==
    \E r \in lmGetLockForPath(locks, p) :
        /\ locks' = r.m
        /\ issued' = keepIssued(r.m)
        /\ resp' = Called("getLockForPath", r.found)
        /\ UNCHANGED <<now, files, served, header, calls, mutex, lock_m, history>>

NextLM ==
    \/ Tick
    \/ \E o \in Owners, p \in Paths, d \in Depths, dur \in Durations :
          /\ Cardinality(DOMAIN locks) < MaxLocks
          /\ createLock(o, p, d, dur)
    \/ \E t \in Tokens, p \in Paths, dur \in Durations : refreshLock(t, p, dur)
    \/ \E t \in Tokens : unlock(t)
    \/ \E p \in Paths, t \in Tokens : isLocked(p, t)
    \/ \E p \in Paths : getLockForPath(p)

SpecLM == Init /\ [][NextLM]_vars

(***************************************************************************)
(* The requests the server is sent.                                        *)
(***************************************************************************)
Cond(not, state, tag) == [Not |-> not, State |-> state, ETag |-> tag]

List(resource, conditions) == [Resource |-> resource, Conditions |-> conditions]

NoIf == [present |-> FALSE, err |-> FALSE, Lists |-> <<>>]

BadIf == [present |-> TRUE, err |-> TRUE, Lists |-> <<>>]

IfOf(lists) == [present |-> TRUE, err |-> FALSE, Lists |-> lists]

\* "(<t>)", "(Not <t>)", "<r> (<t>)" and "([e])"
IfToken(t) == IfOf(<<List(<<>>, <<Cond(FALSE, <<t>>, <<>>)>>)>>)

IfNotToken(t) == IfOf(<<List(<<>>, <<Cond(TRUE, <<t>>, <<>>)>>)>>)

IfTagged(r, t) == IfOf(<<List(r, <<Cond(FALSE, <<t>>, <<>>)>>)>>)

IfETag(e) == IfOf(<<List(<<>>, <<Cond(FALSE, <<>>, e)>>)>>)

\* An ETag no file of the model has.
StaleETag == <<2, ZeroTime>>

\* The If headers sent with a request for url: none; the token of a stored
\* lock or an unknown one, plain, negated or tagged with "/d"; the current
\* ETag of the resource or a stale one.
IfHeaders(url) ==
    {NoIf}
        \cup {IfToken(t) : t \in Tokens}
        \cup {IfNotToken(UnknownToken)}
        \cup {IfTagged(PathD, t) : t \in DOMAIN locks}
        \cup {IfETag(e) : e \in {StaleETag} \cup ({ETag(files, url)} \ {<<>>})}

Data(d) == [kind |-> "data", data |-> d]

Request(method, url, if) ==
    [method |-> method, url |-> url, Depth |-> <<>>, If |-> if, Timeout |-> <<>>,
     Overwrite |-> <<>>, Destination |-> <<>>, LockToken |-> <<>>, body |-> Data(<<>>)]

\* Requests that extractContext refuses or that ask for the dump: a
\* relative path, "/dumpz", a Depth that is no number or is negative, an If
\* header that does not parse; and a request for "/d/", which is cleaned.
Refused(method) ==
    {Request(method, u, i) : u \in {<<"d">>, Dumpz, <<"/", "d", "/">>},
                             i \in {NoIf, IfToken(UnknownToken)}}
        \cup {[Request(method, PathD, i) EXCEPT !.Depth = d] :
                  d \in {<<"x">>, <<"-", "1">>}, i \in {NoIf, IfToken(UnknownToken)}}
        \cup {Request(method, PathD, BadIf)}

Plain(method) == UNION {{Request(method, u, i) : i \in IfHeaders(u)} : u \in Paths}

\* The If headers sent with the requests that carry other headers or a
\* body of their own: none, or one token.
TokenHeaders == {NoIf} \cup {IfToken(t) : t \in Tokens}

Tokened(method) == {Request(method, u, i) : u \in Paths, i \in TokenHeaders}

Bodies == {<<>>, <<"x">>}

WithData(method) == {[r EXCEPT !.body = Data(d)] : r \in Plain(method), d \in Bodies}

\* COPY and MOVE: the destination is not inside the tree of the source.
Destinations(url) ==
    {<<>>, <<[Host |-> "other", Path |-> PathD]>>}
        \cup {<<[Host |-> Host, Path |-> d]>> :
                 d \in {q \in Paths : q = url \/ ~InTree(q, url)}}

CopyOrMove(method) ==
    {[r EXCEPT !.Destination = d, !.Overwrite = o, !.Depth = dh] :
        r \in Tokened(method), d \in UNION {Destinations(u) : u \in Paths},
        o \in {<<>>, <<"F">>}, dh \in {<<>>, <<"0">>}}

PropfindBodies ==
    {[kind |-> "propfind", names |-> <<"DAV::lockdiscovery">>],
     [kind |-> "propfind", names |-> <<"k">>],
     [kind |-> "malformed"]}

Propfinds ==
    {[r EXCEPT !.body = b, !.Depth = dh] :
        r \in Tokened("PROPFIND"), b \in PropfindBodies, dh \in {<<>>, <<"0">>, <<"1">>}}

Set(k, v) == [kind |-> "set", name |-> k, value |-> v]

Rem(k) == [kind |-> "remove", name |-> k, value |-> ""]

ProppatchBodies ==
    {[kind |-> "proppatch", blocks |-> bs] :
        bs \in {<<Set("k", "v")>>, <<Rem("k")>>,
                <<Set("k", "v"), Rem("k")>>, <<Rem("k"), Set("k", "v")>>}}
        \cup {[kind |-> "malformed"]}

Proppatches == {[r EXCEPT !.body = b] : r \in Tokened("PROPPATCH"), b \in ProppatchBodies}

Second100 == <<"S", "e", "c", "o", "n", "d", "-", "1", "0", "0">>

\* LOCK: a new lock is not asked for while MaxLocks locks are stored.
LockBodies ==
    {Data(<<>>),
     [kind |-> "lockinfo", Exclusive |-> TRUE, Shared |-> TRUE, Write |-> TRUE, Owner |-> "o1"]}
        \cup (IF Cardinality(DOMAIN locks) < MaxLocks
              THEN {[kind |-> "lockinfo", Exclusive |-> TRUE, Shared |-> FALSE,
                     Write |-> TRUE, Owner |-> "o1"]}
              ELSE {})

Locks ==
    {[r EXCEPT !.body = b, !.Depth = dh, !.Timeout = t] :
        r \in Tokened("LOCK"), b \in LockBodies, dh \in {<<>>, <<"0">>, <<"1">>},
        t \in {<<>>, <<Infinite, Second100>>}}

Unlocks ==
    {[r EXCEPT !.LockToken = lt] :
        r \in Tokened("UNLOCK"), lt \in {<<>>} \cup {<<t>> : t \in Tokens}}

Requests(method) ==
    Refused(method) \cup
        CASE method \in {"PUT", "MKCOL"} -> WithData(method)
          [] method \in {"COPY", "MOVE"} ->
                 {r \in CopyOrMove(method) : r.Destination \in Destinations(r.url)}
          [] method = "PROPFIND" -> Propfinds
          [] method = "PROPPATCH" -> Proppatches
          [] method = "LOCK" -> Locks
          [] method = "UNLOCK" -> Unlocks
          [] OTHER -> Plain(method)

Methods ==
    {"OPTIONS", "GET", "HEAD", "POST", "DELETE", "PUT", "MKCOL", "COPY", "MOVE",
     "PROPFIND", "PROPPATCH", "LOCK", "UNLOCK", "TRACE"}

AllRequests == UNION {Requests(method) : method \in Methods}

(***************************************************************************)
(* The server: one request is served at a time (ServeHTTP run to its end). *)
(* A request that leaves the files and the locks as they are leaves the    *)
(* state as it is; the requests that change it are counted and recorded.   *)
(***************************************************************************)
Serving == served < MaxRequests

Serve(method) ==
    /\ Serving
    /\ \E req \in Requests(method) : \E o \in ServeHTTP(req, files, locks) :
          /\ o.files # files \/ o.locks # locks
          /\ files' = o.files
          /\ locks' = o.locks
          /\ resp' = Answered(req, o)
          /\ served' = served + 1
          /\ UNCHANGED <<now, issued, header, calls, mutex, lock_m, history>>

OPTIONS == Serve("OPTIONS")

GET == Serve("GET")

HEAD == Serve("HEAD")

POST == Serve("POST")

DELETE == Serve("DELETE")

PUT == Serve("PUT")

MKCOL == Serve("MKCOL")

COPY == Serve("COPY")

MOVE == Serve("MOVE")

PROPFIND == Serve("PROPFIND")

PROPPATCH == Serve("PROPPATCH")

LOCK == Serve("LOCK")

UNLOCK == Serve("UNLOCK")

\* A method the switch of ServeHTTP does not know.
TRACE == Serve("TRACE")

Next ==
    \/ Tick
    \/ OPTIONS
    \/ GET
    \/ HEAD
    \/ POST
    \/ DELETE
    \/ PUT
    \/ MKCOL
    \/ COPY
    \/ MOVE
    \/ PROPFIND
    \/ PROPPATCH
    \/ LOCK
    \/ UNLOCK
    \/ TRACE

Spec == Init /\ [][Next]_vars

(***************************************************************************)
(* The server sent requests whose If header is a text, which parseIfHeader *)
(* parses: every text of at most MaxHeaderLen runes of Alphabet, and some  *)
(* longer ones.                                                            *)
(***************************************************************************)
Alphabet == {"(", ")", "<", ">", "[", "]", " ", "a"}

\* The texts enumerated and "(Not <a>)", "(Not [a])", "(NotNot a)",
\* "(<a>) (<a>", "<//x/a>(a)" and "<//h/a>(Not a)"
Headers ==
    UNION {[1..k -> Alphabet] : k \in 0..MaxHeaderLen}
        \cup {<<"(", "N", "o", "t", " ", "<", "a", ">", ")">>,
              <<"(", "N", "o", "t", " ", "[", "a", "]", ")">>,
              <<"(", "N", "o", "t", "N", "o", "t", " ", "a", ")">>,
              <<"(", "<", "a", ">", ")", " ", "(", "<", "a", ">">>,
              <<"<", "/", "/", "x", "/", "a", ">", "(", "a", ")">>,
              <<"<", "/", "/", "h", "/", "a", ">", "(", "N", "o", "t", " ", "a", ")">>}

\* The If header of text s as parseIfHeader reads it: absent when s is
\* empty, else parsed by ParseIfTag and rewritten by RewriteHosts. A text of
\* Headers is no token the lock manager generates and no ETag of a file:
\* its states are the unknown token and its ETags the stale one.
IfText(s) ==
    LET cond(c) == Cond(c.Not, IF c.State = <<>> THEN <<>> ELSE <<UnknownToken>>,
                        IF c.ETag = <<>> THEN <<>> ELSE StaleETag)
        list(l) == List(l.Resource, [i \in 1..Len(l.Conditions) |-> cond(l.Conditions[i])])
        rewritten(rw) ==
            IF rw.err # "" THEN BadIf
            ELSE IfOf([i \in 1..Len(rw.Lists) |-> list(rw.Lists[i])])
        parsed(pt) == IF pt.err # "" THEN BadIf ELSE rewritten(RewriteHosts(pt.Lists, <<"h">>))
    IN  IF s = <<>> THEN NoIf ELSE parsed(ParseIfTag(s))

InitIf ==
    /\ now = 0
    /\ locks = <<>>
    /\ files = NewMemFS
    /\ issued = NoLock
    /\ resp = Called("init", TRUE)
    /\ served = 0
    /\ header \in Headers
    /\ calls = <<>>
    /\ mutex = 0
    /\ lock_m = 0
    /\ history = <<>>

\* The request of the method with the header, whatever it changes, for a
\* directory that exists and for a path that does not; one request is made
\* with each header.
ServeIf(method) ==
    /\ resp.op = "init"
    /\ \E u \in {Root, PathD} : \E o \in ServeHTTP(Request(method, u, IfText(header)), files, locks) :
          /\ files' = o.files
          /\ locks' = o.locks
          /\ resp' = Answered(Request(method, u, IfText(header)), o)
          /\ served' = served + 1
          /\ UNCHANGED <<now, issued, header, calls, mutex, lock_m, history>>

NextIf == \E method \in Methods : ServeIf(method)

SpecIf == InitIf /\ [][NextIf]_vars
(***************************************************************************)
(* The lock manager called by several goroutines at once. Each method      *)
(* starts with lm.m.Lock() and defers lm.m.Unlock(); createLock and        *)
(* refreshLock read the map and write it in two steps. The clock does not  *)
(* advance while the calls overlap.                                        *)
(***************************************************************************)
Procs == 1..MaxProcs

\* The lock createLock stored at the clock reading t0 for p, when asked for a
\* duration below the minimum.
lockAt(t0, p, depth) ==
    [token |-> [seed |-> t0, stamp |-> t0], depth |-> depth, owner |-> "o1",
     duration |-> clampDuration(1), modified |-> t0, path |-> p]

\* The lock maps the calls start on: none, one or both of a lock on the
\* subtree of "/d" stored at 0 and a lock on "/de" stored one tick later.
EarlierLocks ==
    {[t \in {l.token : l \in S} |-> CHOOSE l \in S : l.token = t] :
        S \in SUBSET {lockAt(0, PathD, -1), lockAt(TickStep, PathDE, 0)}}

NoCall == [op |-> "none", p |-> Root, depth |-> 0, tok |-> UnknownToken, duration |-> 0]

Returned(ok, tok) == [ok |-> ok, tok |-> tok]

\* The calls a goroutine makes.
ConcCalls ==
    {[op |-> "createLock", p |-> p, depth |-> d, tok |-> UnknownToken, duration |-> 1] :
         p \in {PathD, PathDF}, d \in {-1, 0}}
        \cup {[op |-> o, p |-> PathDF, depth |-> 0, tok |-> t, duration |-> 400] :
                  o \in {"refreshLock", "unlock", "isLocked"}, t \in Tokens}
        \cup {[op |-> "getLockForPath", p |-> PathDF, depth |-> 0, tok |-> UnknownToken,
               duration |-> 0]}

InitConc ==
    /\ now \in {MaxNow - TickStep, MaxNow}
    /\ locks \in EarlierLocks
    /\ files = NewMemFS
    /\ issued = NoLock
    /\ resp = Called("init", TRUE)
    /\ served = 0
    /\ header = <<>>
    /\ calls = [i \in Procs |-> [pc |-> "idle", call |-> NoCall, ret |-> Returned(FALSE, <<>>)]]
    /\ mutex = 0
    /\ lock_m = 0
    /\ history = [init |-> locks, events |-> <<>>]

Event(e, i) == [e |-> e, i |-> i]

\* The goroutine i calls a method of the lock manager.
Call(i) ==
    /\ calls[i].pc = "idle"
    /\ \E c \in ConcCalls : calls' = [calls EXCEPT ![i].pc = "called", ![i].call = c]
    /\ history' = [history EXCEPT !.events = Append(@, Event("call", i))]
    /\ UNCHANGED <<now, locks, files, issued, resp, served, header, mutex, lock_m>>

\* A faulty mutex, which is never held: C22_Linearizable tells it from
\* Unlocked.
UnlockedAlways(mu) == TRUE

\* The condition sync.Mutex.Lock waits for.
Unlocked(mu) == mu = 0

\* lm.m.Lock()
mLock(i) ==
    /\ calls[i].pc = "called"
    /\ Unlocked(mutex)
    /\ mutex' = i
    /\ calls' = [calls EXCEPT ![i].pc = "locked"]
    /\ UNCHANGED <<now, locks, files, issued, resp, served, header, lock_m, history>>

\* return, with the deferred lm.m.Unlock()
Return(i, ret, m) ==
    /\ locks' = m
    /\ mutex' = 0
    /\ calls' = [calls EXCEPT ![i].pc = "returned", ![i].ret = ret]
    /\ history' = [history EXCEPT !.events = Append(@, Event("ret", i))]
    /\ UNCHANGED <<now, files, issued, resp, served, header, lock_m>>

Body(i, op) == calls[i].pc = "locked" /\ calls[i].call.op = op

\* createLock, the loop over the locks: it returns ErrorLocked at the first
\* crossing live lock, and deletes the expired locks it meets.
createLockLoop(i) ==
    /\ Body(i, "createLock")
    /\ IF createLockBlocked(locks, calls[i].call.p, calls[i].call.depth)
       THEN \E gone \in SUBSET expiredIn(locks) :
                Return(i, Returned(FALSE, <<>>), Without(locks, gone))
       ELSE /\ locks' = Without(locks, expiredIn(locks))
            /\ calls' = [calls EXCEPT ![i].pc = "looped"]
            /\ UNCHANGED <<now, files, issued, resp, served, header, mutex, lock_m, history>>

\* createLock, after the loop: lm.locks[l.token] = l
createLockStore(i) ==
    /\ calls[i].pc = "looped"
    /\ Return(i, Returned(TRUE, <<generateToken>>),
              Store(locks, generateToken,
                    newLock("o1", calls[i].call.p, calls[i].call.depth,
                            clampDuration(calls[i].call.duration))))

\* refreshLock, up to the last check: the lock is looked up, deleted when
\* expired, and must include the path.
refreshLockFind(i) ==
    /\ Body(i, "refreshLock")
    /\ LET found(r) ==
               IF ~r.ok THEN Return(i, Returned(FALSE, <<>>), r.m)
               ELSE /\ calls' = [calls EXCEPT ![i].pc = "found"]
                    /\ UNCHANGED <<now, locks, files, issued, resp, served, header, mutex, lock_m,
                                   history>>
       IN  found(lmRefreshLock(locks, calls[i].call.tok, calls[i].call.p,
                               calls[i].call.duration))

\* refreshLock, l.duration = duration; l.touch(): the lock found is written
\* through its pointer, whether the map still holds it or not.
refreshLockTouch(i) ==
    /\ calls[i].pc = "found"
    /\ Return(i, Returned(TRUE, <<>>),
              IF calls[i].call.tok \in DOMAIN locks
              THEN [locks EXCEPT ![calls[i].call.tok] =
                        refreshed(@, clampDuration(calls[i].call.duration))]
              ELSE locks)

unlockBody(i) ==
    /\ Body(i, "unlock")
    /\ Return(i, Returned(TRUE, <<>>), lmUnlock(locks, calls[i].call.tok))

isLockedBody(i) ==
    /\ Body(i, "isLocked")
    /\ LET answer(r) == Return(i, Returned(r.ok, <<>>), r.m)
       IN  answer(lmIsLocked(locks, calls[i].call.p, calls[i].call.tok))

getLockForPathBody(i) ==
    /\ Body(i, "getLockForPath")
    /\ \E r \in lmGetLockForPath(locks, calls[i].call.p) :
          Return(i, Returned(r.found, r.tok), r.m)

NextConc ==
    \E i \in Procs :
        \/ Call(i)
        \/ mLock(i)
        \/ createLockLoop(i)
        \/ createLockStore(i)
        \/ refreshLockFind(i)
        \/ refreshLockTouch(i)
        \/ unlockBody(i)
        \/ isLockedBody(i)
        \/ getLockForPathBody(i)

SpecConc == InitConc /\ [][NextConc]_vars

(***************************************************************************)
(* doLock for a new lock run step by step by one goroutine, while other    *)
(* requests are served between its steps: DELETE, PUT and MKCOL, each run  *)
(* to its end.                                                             *)
(***************************************************************************)
\* The LOCK requests of the goroutine: a lockinfo body asking for an
\* exclusive write lock, no If header.
NewLocks ==
    {[Request("LOCK", u, NoIf) EXCEPT
          !.Depth = dh,
          !.body = [kind |-> "lockinfo", Exclusive |-> TRUE, Shared |-> FALSE,
                    Write |-> TRUE, Owner |-> "o1"]] :
        u \in {PathD, PathDF}, dh \in {<<>>, <<"0">>}}

\* The goroutine at pc, with the lock it holds (tok), the error of Create
\* (err) and the status it answered (code).
Goroutine(pc, req, tok, err, code) ==
    [pc |-> pc, req |-> req, ctx |-> extractContext(req), tok |-> tok, err |-> err,
     code |-> code]

At1(pc) == calls[1].pc = pc

Goto(pc) == calls' = <<[calls[1] EXCEPT !.pc = pc]>>

AnswerLock(code) == calls' = <<[calls[1] EXCEPT !.pc = "answered", !.code = code]>>

InitDoLock ==
    /\ now = 0
    /\ locks = <<>>
    /\ files = NewMemFS
    /\ issued = NoLock
    /\ resp = Called("init", TRUE)
    /\ served = 0
    /\ header = <<>>
    /\ calls \in {<<Goroutine("idle", req, <<>>, "", 0)>> : req \in NewLocks}
    /\ mutex = 0
    /\ lock_m = 0
    /\ history = <<>>

\* ServeHTTP up to the call of doLock, and ParseLock: the request has no If
\* header and its body parses.
lockBegin ==
    /\ At1("idle")
    /\ calls[1].ctx.err = "" /\ ParseLock(calls[1].req.body).err = ""
    /\ Goto("parsed")
    /\ UNCHANGED <<now, locks, files, issued, resp, served, header, mutex, lock_m, history>>

\* ctx.p.Parent().Lookup()
lockParent ==
    /\ At1("parsed")
    /\ IF ~Lookup(files, Dir(calls[1].ctx.p))
       THEN AnswerLock(errorHeader("MissingParent", files, locks).code)
       ELSE Goto("parent")
    /\ UNCHANGED <<now, locks, files, issued, resp, served, header, mutex, lock_m, history>>

\* s.lm.createLock(req.Owner, ctx.p, ctx.depth, ctx.timeout)
lockCreateLock ==
    /\ At1("parent")
    /\ \E cl \in lmCreateLock(locks, ParseLock(calls[1].req.body).Owner, calls[1].ctx.p,
                              calls[1].ctx.depth, calls[1].ctx.timeout) :
          /\ locks' = cl.m
          /\ calls' = <<IF cl.ok
                        THEN [calls[1] EXCEPT !.pc = "held", !.tok = cl.tok]
                        ELSE [calls[1] EXCEPT !.pc = "answered",
                                  !.code = errorHeader("Locked", files, cl.m).code]>>
    /\ UNCHANGED <<now, files, issued, resp, served, header, mutex, lock_m, history>>

\* ctx.p.Lookup(), with the lock held
lockLookup ==
    /\ At1("held")
    /\ IF Lookup(files, calls[1].ctx.p) THEN AnswerLock(200) ELSE Goto("missing")
    /\ UNCHANGED <<now, locks, files, issued, resp, served, header, mutex, lock_m, history>>

\* ctx.p.Create()
lockCreate ==
    /\ At1("missing")
    /\ LET created(cr) ==
               IF cr.err # ""
               THEN /\ calls' = <<[calls[1] EXCEPT !.pc = "failing", !.err = cr.err]>>
                    /\ UNCHANGED files
               ELSE /\ AnswerLock(201)
                    /\ files' = cr.files
       IN  created(Create(files, calls[1].ctx.p))
    /\ UNCHANGED <<now, locks, issued, resp, served, header, mutex, lock_m, history>>

\* s.lm.unlock(l.token); s.errorHeader(ctx, w, err)
lockFailing ==
    /\ At1("failing")
    /\ locks' = lmUnlock(locks, calls[1].tok[1])
    /\ AnswerLock(errorHeader(calls[1].err, files, locks').code)
    /\ UNCHANGED <<now, files, issued, resp, served, header, mutex, lock_m, history>>

NextDoLock ==
    \/ Tick
    \/ DELETE
    \/ PUT
    \/ MKCOL
    \/ lockBegin
    \/ lockParent
    \/ lockCreateLock
    \/ lockLookup
    \/ lockCreate
    \/ lockFailing

SpecDoLock == InitDoLock /\ [][NextDoLock]_vars


(***************************************************************************)
(* One lock record l, stored at 0 and live, whose fields duration and      *)
(* modified goroutines read and write at once: refreshLock (under lm.m),   *)
(* l.toXML() as doLock and PROPFIND call it once the lock manager has      *)
(* returned l, and log.Println(l), which calls l.String(). A goroutine's   *)
(* pc names the statement it executes next. The clock does not advance.    *)
(***************************************************************************)
TheLock == lockAt(0, PathD, -1)

\* What a goroutine has read of l.duration and l.modified.
Fields(duration, modified) == [duration |-> duration, modified |-> modified]

\* The calls a goroutine makes on l.
RecordCalls ==
    {[op |-> "refreshLock", duration |-> d] : d \in Durations}
        \cup {[op |-> o, duration |-> 0] : o \in {"toXml", "String"}}

InitRecord ==
    /\ now = TickStep
    /\ locks = Store(<<>>, TheLock.token, TheLock)
    /\ files = NewMemFS
    /\ issued = NoLock
    /\ resp = Called("init", TRUE)
    /\ served = 0
    /\ header = <<>>
    /\ calls = [i \in Procs |-> [pc |-> "idle", op |-> "none", duration |-> 0,
                                 read |-> Fields(0, 0)]]
    /\ mutex = 0
    /\ lock_m = 0
    /\ history = <<>>

\* The record, as the map holds it.
theLock == locks[TheLock.token]

Jump(i, pc) == calls' = [calls EXCEPT ![i].pc = pc]

\* The goroutine i makes a call; the methods of l start at once.
recordCall(i) ==
    /\ calls[i].pc = "idle"
    /\ \E c \in RecordCalls :
          calls' = [calls EXCEPT ![i].op = c.op, ![i].duration = c.duration,
                                 ![i].pc = c.op]
    /\ UNCHANGED <<now, locks, files, issued, resp, served, header, mutex, lock_m, history>>

\* refreshLock: lm.m.Lock()
refreshLockEnter(i) ==
    /\ calls[i].pc = "refreshLock"
    /\ Unlocked(mutex)
    /\ mutex' = i
    /\ Jump(i, "lookup")
    /\ UNCHANGED <<now, locks, files, issued, resp, served, header, lock_m, history>>

\* refreshLock: the lock is looked up; l.expired() takes l.m, reads the two
\* fields and releases l.m; the path is included.
refreshLockLookup(i) ==
    /\ calls[i].pc = "lookup"
    /\ Unlocked(lock_m)
    /\ IF lmRefreshLock(locks, TheLock.token, theLock.path, calls[i].duration).ok
       THEN Jump(i, "assign") /\ UNCHANGED mutex
       ELSE Jump(i, "returned") /\ mutex' = 0
    /\ UNCHANGED <<now, locks, files, issued, resp, served, header, lock_m, history>>

\* refreshLock: l.duration = duration
refreshLockAssign(i) ==
    /\ calls[i].pc = "assign"
    /\ locks' = [locks EXCEPT ![TheLock.token].duration = clampDuration(calls[i].duration)]
    /\ Jump(i, "touch")
    /\ UNCHANGED <<now, files, issued, resp, served, header, mutex, lock_m, history>>

\* l.touch(): l.m.Lock()
touchLock(i) ==
    /\ calls[i].pc = "touch"
    /\ Unlocked(lock_m)
    /\ lock_m' = i
    /\ Jump(i, "stamp")
    /\ UNCHANGED <<now, locks, files, issued, resp, served, header, mutex, history>>

\* l.touch(): l.modified = time.Now(), the deferred l.m.Unlock(); and
\* refreshLock returns, with the deferred lm.m.Unlock().
touchStamp(i) ==
    /\ calls[i].pc = "stamp"
    /\ locks' = [locks EXCEPT ![TheLock.token].modified = now]
    /\ lock_m' = 0
    /\ mutex' = 0
    /\ Jump(i, "returned")
    /\ UNCHANGED <<now, files, issued, resp, served, header, history>>

\* The values a read of the two fields can give: those stored, and for a
\* field another goroutine is about to write without any ordering between
\* the two accesses, the value it writes as well.
ReadOf(i) ==
    {Fields(d, md) :
        d \in {theLock.duration} \cup {clampDuration(calls[j].duration) :
                                     j \in {k \in Procs \ {i} : calls[k].pc = "assign"}},
        md \in {theLock.modified} \cup
                  {now : j \in {k \in Procs \ {i} : calls[k].pc = "stamp"}}}

\* l.toXML(): l.m.Lock()
toXmlLock(i) ==
    /\ calls[i].pc = "toXml"
    /\ Unlocked(lock_m)
    /\ lock_m' = i
    /\ Jump(i, "render")
    /\ UNCHANGED <<now, locks, files, issued, resp, served, header, mutex, history>>

\* l.toXML(): t := (l.duration - time.Since(l.modified)) / time.Second, and
\* the deferred l.m.Unlock()
toXmlRender(i) ==
    /\ calls[i].pc = "render"
    /\ \E r \in ReadOf(i) : calls' = [calls EXCEPT ![i].pc = "returned", ![i].read = r]
    /\ lock_m' = 0
    /\ UNCHANGED <<now, locks, files, issued, resp, served, header, mutex, history>>

\* l.String(): t := (l.duration - time.Since(l.modified)), no mutex taken
lockString(i) ==
    /\ calls[i].pc = "String"
    /\ \E r \in ReadOf(i) : calls' = [calls EXCEPT ![i].pc = "returned", ![i].read = r]
    /\ UNCHANGED <<now, locks, files, issued, resp, served, header, mutex, lock_m, history>>

NextRecord ==
    \E i \in Procs :
        \/ recordCall(i)
        \/ refreshLockEnter(i)
        \/ refreshLockLookup(i)
        \/ refreshLockAssign(i)
        \/ touchLock(i)
        \/ touchStamp(i)
        \/ toXmlLock(i)
        \/ toXmlRender(i)
        \/ lockString(i)

SpecRecord == InitRecord /\ [][NextRecord]_vars

(***************************************************************************)
(* memfs called by several goroutines at once. Mkdir and Create first call *)
(* p.Lookup(), which takes fs.m and releases it, and then take fs.m again  *)
(* for the rest of their body; each of the two critical sections is one    *)
(* step. A goroutine that has created a file writes a byte to it through   *)
(* the handle, as doPut does.                                              *)
(***************************************************************************)
\* The calls a goroutine makes.
FsCalls == {[op |-> o, p |-> p] : o \in {"Mkdir", "Create"}, p \in {PathD, PathDF}}

InitFs ==
    /\ now = 0
    /\ locks = <<>>
    /\ files = NewMemFS
    /\ issued = NoLock
    /\ resp = Called("init", TRUE)
    /\ served = 0
    /\ header = <<>>
    /\ calls = [i \in Procs |-> [pc |-> "idle", op |-> "none", p |-> Root, err |-> "",
                                 stored |-> FALSE]]
    /\ mutex = 0
    /\ lock_m = 0
    /\ history = <<>>

\* What Mkdir and Create return: the error, "" for none.
fsReturn(i, err) == calls' = [calls EXCEPT ![i].pc = "returned", ![i].err = err]

fsCall(i) ==
    /\ calls[i].pc = "idle"
    /\ \E c \in FsCalls : calls' = [calls EXCEPT ![i].pc = "called", ![i].op = c.op, ![i].p = c.p]
    /\ UNCHANGED <<now, locks, files, issued, resp, served, header, mutex, lock_m, history>>

\* if _, err := p.Lookup(); err == nil { return nil, w.ErrorConflict }
fsLookup(i) ==
    /\ calls[i].pc = "called"
    /\ IF Lookup(files, calls[i].p) THEN fsReturn(i, "Conflict") ELSE Jump(i, "absent")
    /\ UNCHANGED <<now, locks, files, issued, resp, served, header, mutex, lock_m, history>>

\* The rest of Mkdir and Create, under fs.m: the parent is looked up, and
\* the new memfile is stored under the path, in the place of the memfile
\* another goroutine stored there.
fsStore(i) ==
    /\ calls[i].pc = "absent"
    /\ IF ~Lookup(files, Dir(calls[i].p))
       THEN fsReturn(i, "MissingParent") /\ UNCHANGED files
       ELSE /\ files' = Store(files, calls[i].p, newMemFile(calls[i].op = "Mkdir"))
            /\ calls' = [j \in Procs |->
                            IF j = i
                            THEN [calls[i] EXCEPT
                                      !.pc = IF calls[i].op = "Mkdir" THEN "returned"
                                             ELSE "opened",
                                      !.stored = TRUE]
                            ELSE IF calls[j].p = calls[i].p
                                 THEN [calls[j] EXCEPT !.stored = FALSE]
                                 ELSE calls[j]]
    /\ UNCHANGED <<now, locks, issued, resp, served, header, mutex, lock_m, history>>

\* fh.Write of one byte through the handle Create returned: the handle
\* holds the memfile, whether the map still holds it (stored) or not.
fsWrite(i) ==
    /\ calls[i].pc = "opened"
    /\ files' = IF calls[i].stored
                THEN [files EXCEPT ![calls[i].p] = Write(@, <<"x">>)]
                ELSE files
    /\ Jump(i, "returned")
    /\ UNCHANGED <<now, locks, issued, resp, served, header, mutex, lock_m, history>>

NextFs == \E i \in Procs : fsCall(i) \/ fsLookup(i) \/ fsStore(i) \/ fsWrite(i)

SpecFs == InitFs /\ [][NextFs]_vars

(***************************************************************************)
(* A PUT, DELETE or MKCOL without If header served step by step by one     *)
(* goroutine (Debug off), while LOCK and UNLOCK requests are served        *)
(* between its steps, each run to its end.                                 *)
(***************************************************************************)
Writes ==
    {[Request(method, u, NoIf) EXCEPT !.body = Data(IF method = "PUT" THEN <<"x">> ELSE <<>>)] :
        method \in {"PUT", "DELETE", "MKCOL"}, u \in {PathD, PathDF}}

InitWrite ==
    /\ now = 0
    /\ locks = <<>>
    /\ files = NewMemFS
    /\ issued = NoLock
    /\ resp = Called("init", TRUE)
    /\ served = 0
    /\ header = <<>>
    /\ calls \in {<<Goroutine("idle", req, <<>>, "", 0)>> : req \in Writes}
    /\ mutex = 0
    /\ lock_m = 0
    /\ history = <<>>

\* ServeHTTP up to the handler, which starts with s.checkCanWrite(ctx, ctx.p)
writeCheck ==
    /\ At1("idle")
    /\ calls[1].ctx.err = ""
    /\ \E c \in checkCanWrite(calls[1].ctx, calls[1].ctx.p, locks) :
          /\ locks' = c.m
          /\ IF c.ok THEN Goto("checked")
             ELSE AnswerLock(errorHeader("Locked", files, c.m).code)
    /\ UNCHANGED <<now, files, issued, resp, served, header, mutex, lock_m, history>>

\* The handler past the lock check.
writeTarget ==
    /\ At1("checked")
    /\ LET written(o) == files' = o.files /\ AnswerLock(o.code)
       IN  written(CASE calls[1].req.method = "PUT" ->
                            putTarget(calls[1].ctx, calls[1].req, files, locks)
                     [] calls[1].req.method = "DELETE" ->
                            deleteTarget(calls[1].ctx, files, locks)
                     [] calls[1].req.method = "MKCOL" ->
                            mkcolTarget(calls[1].ctx, calls[1].req, files, locks))
    /\ UNCHANGED <<now, locks, issued, resp, served, header, mutex, lock_m, history>>

NextWrite == Tick \/ LOCK \/ UNLOCK \/ writeCheck \/ writeTarget

SpecWrite == InitWrite /\ [][NextWrite]_vars
(***************************************************************************)
(* Terms of the design used by the properties below.                       *)
(***************************************************************************)
\* A lock is live iff now < modified + duration.
SpecLive(l) == now < l.modified + l.duration

\* clamp(D, 20s, 300s)
SpecClamp(d) == IF d < 20 THEN 20 ELSE IF d > 300 THEN 300 ELSE d

Deadline(l) == l.modified + l.duration

LiveLocksOf(m) == {m[t] : t \in {u \in DOMAIN m : SpecLive(m[u])}}

LiveLocks == LiveLocksOf(locks)

Stored(m) == {m[t] : t \in DOMAIN m}

\* Some live lock held by the manager crosses a request for (p, depth), by
\* the data-model relation.
SpecCrossing(p, depth) ==
    \E l \in LiveLocks : IncludedIn(p, l.path, l.depth) \/ IncludedIn(l.path, p, depth)

\* Some live lock covers p.
SpecCovered(p) == \E l \in LiveLocks : IncludedIn(p, l.path, l.depth)

\* Some token of the If header is the token of a live lock whose scope
\* includes p.
SpecPresented(if, p) ==
    /\ if.present
    /\ \E i \in 1..Len(GetAllTokens(if.Lists)) :
          LET t == GetAllTokens(if.Lists)[i]
          IN  /\ t \in DOMAIN locks
              /\ SpecLive(locks[t])
              /\ IncludedIn(p, locks[t].path, locks[t].depth)

SpecDenied(if, p) == SpecCovered(p) /\ ~SpecPresented(if, p)

\* The request gets past the head of ServeHTTP: its context is extracted and
\* its If header, when present, evaluates true.
Passes(req) ==
    /\ req.url # Dumpz
    /\ extractContext(req).err = ""
    /\ \/ ~req.If.present
       \/ IfTagEval(req.If.Lists, files, locks, extractContext(req).p).ok

\* The context of the request is extracted and its If header evaluates false.
Fails(req) ==
    /\ req.url # Dumpz
    /\ extractContext(req).err = ""
    /\ req.If.present
    /\ ~IfTagEval(req.If.Lists, files, locks, extractContext(req).p).ok

Target(req) == extractContext(req).p

\* The files other than p are as they were.
SameBut(F, p) ==
    /\ DOMAIN F \ {p} = DOMAIN files \ {p}
    /\ \A q \in DOMAIN files \ {p} : F[q] = files[q]

(***************************************************************************)
(* C1. Lock exclusion: for any two live locks L1 and L2 held by the lock   *)
(* manager, L1.path is not included in (L2.path, L2.depth) and L2.path is  *)
(* not included in (L1.path, L1.depth), by the data-model relation.        *)
(***************************************************************************)
C1_LockExclusion ==
    \A l1, l2 \in LiveLocks :
        l1 # l2 => /\ ~IncludedIn(l1.path, l2.path, l2.depth)
                   /\ ~IncludedIn(l2.path, l1.path, l1.depth)

\* The same of the locks of depth 0 or -1: this much holds.
C1_LockExclusionDepth0OrInfinity ==
    \A l1, l2 \in LiveLocks :
        (l1 # l2 /\ l1.depth \in {-1, 0} /\ l2.depth \in {-1, 0})
            => /\ ~IncludedIn(l1.path, l2.path, l2.depth)
               /\ ~IncludedIn(l2.path, l1.path, l1.depth)

(***************************************************************************)
(* C2. Write authorization: a PUT, DELETE, MKCOL or PROPPATCH on p, a MOVE *)
(* from p and a COPY or MOVE to p, whose If header (when present) has      *)
(* evaluated true, is answered 423 with the filesystem unchanged iff some  *)
(* live lock covers p and either the request has no If header or no token  *)
(* of its If header is the token of a live lock whose scope includes p;    *)
(* in every other case the lock check lets the request proceed.            *)
(***************************************************************************)
HasDestination(req) ==
    /\ req.Destination # <<>>
    /\ req.Destination[1].Host = Host
    /\ ForPath(req.Destination[1].Path).err = ""

Destination(req) == ForPath(req.Destination[1].Path).path

\* The request is denied by the design: on its target for the methods that
\* write it, and on its destination for COPY and MOVE once the Destination
\* header is accepted.
DeniedWrite(req) ==
    \/ /\ req.method \in {"PUT", "DELETE", "MKCOL", "PROPPATCH", "MOVE"}
       /\ SpecDenied(req.If, Target(req))
    \/ /\ req.method \in {"COPY", "MOVE"}
       /\ HasDestination(req)
       /\ SpecDenied(req.If, Destination(req))

WriteMethods == {"PUT", "DELETE", "MKCOL", "PROPPATCH", "COPY", "MOVE"}

C2_WriteAuthorization ==
    Serving =>
        \A method \in WriteMethods : \A req \in Requests(method) :
            Passes(req) =>
                \A o \in ServeHTTP(req, files, locks) :
                    (o.code = 423 /\ o.files = files) <=> DeniedWrite(req)

\* What holds of the lock check: the same with the relation Included
\* computes and with the locks that lock.expired does not report expired.
CodeCovers(t, p) ==
    /\ t \in DOMAIN locks
    /\ now <= locks[t].modified + locks[t].duration
    /\ Included(p, locks[t].path, locks[t].depth).ok

CodeDenied(if, p) ==
    /\ \E t \in DOMAIN locks : CodeCovers(t, p)
    /\ \/ ~if.present
       \/ \A i \in 1..Len(GetAllTokens(if.Lists)) : ~CodeCovers(GetAllTokens(if.Lists)[i], p)

CodeDeniedWrite(req) ==
    \/ /\ req.method \in {"PUT", "DELETE", "MKCOL", "PROPPATCH", "MOVE"}
       /\ CodeDenied(req.If, Target(req))
    \/ /\ req.method \in {"COPY", "MOVE"}
       /\ HasDestination(req)
       /\ CodeDenied(req.If, Destination(req))

C2_WriteAuthorizationByIncluded ==
    Serving =>
        \A method \in WriteMethods : \A req \in Requests(method) :
            Passes(req) =>
                \A o \in ServeHTTP(req, files, locks) :
                    (o.code = 423 /\ o.files = files) <=> CodeDeniedWrite(req)

(***************************************************************************)
(* C3. Lock coverage: while a lock created on p is live, isLocked(q,       *)
(* token) is true for every q in-tree of p when its depth is unbounded,    *)
(* and when its depth is 0 it is true for q = p and false for every other  *)
(* path q.                                                                 *)
(***************************************************************************)
C3_LockCoverage ==
    \A t \in DOMAIN locks :
        SpecLive(locks[t]) =>
            /\ locks[t].depth = -1 =>
                   \A q \in Paths : TreeAncestor(locks[t].path, q) => lmIsLocked(locks, q, t).ok
            /\ locks[t].depth = 0 =>
                   \A q \in Paths : lmIsLocked(locks, q, t).ok <=> q = locks[t].path

\* isLocked has answered true while a live lock of unbounded depth on /d and
\* a live lock of depth 0 are held.
C3_Witness ==
    /\ resp.op = "isLocked" /\ resp.ok
    /\ \E l \in LiveLocks : l.depth = -1 /\ l.path = PathD
    /\ \E l \in LiveLocks : l.depth = 0

(***************************************************************************)
(* C4. Expiration, as claimed: if createLock(p, d, duration = D) succeeds  *)
(* and the lock is neither refreshed nor unlocked, then at every time      *)
(* later than D after its creation isLocked(p, token) is false, and (no    *)
(* other lock existing) a createLock on any path in-tree of p succeeds.    *)
(***************************************************************************)
ExpiredAfter(d) ==
    (issued # NoLock /\ now > issued.created + d) =>
        /\ ~lmIsLocked(locks, locks[issued.token].path, issued.token).ok
        /\ DOMAIN locks = {issued.token} =>
               \A q \in Paths, depth \in Depths :
                   TreeAncestor(locks[issued.token].path, q) =>
                       \A r \in lmCreateLock(locks, "o1", q, depth, 1) : r.ok

C4_ExpirationAsClaimed == issued # NoLock => ExpiredAfter(issued.requested)

\* C4 amended: the same at every time later than clamp(D, 20s, 300s) after
\* the creation of the lock.
C4_Expiration == issued # NoLock => ExpiredAfter(SpecClamp(issued.requested))

\* A lock asked for with 1 second, never refreshed nor unlocked, more than
\* 20 seconds after its creation.
C4_Witness ==
    /\ issued # NoLock
    /\ issued.requested = 1
    /\ now > issued.created + 20
    /\ DOMAIN locks = {issued.token}

(***************************************************************************)
(* C5. Refresh, as claimed: a successful refreshLock(token, p, D') on a    *)
(* live lock leaves token, path, depth and owner unchanged, sets the       *)
(* deadline to now + clamp(D', 20s, 300s), and the new deadline is never   *)
(* earlier than the deadline the lock had before.                          *)
(***************************************************************************)
RefreshSets(l, old, d) ==
    /\ l.token = old.token
    /\ l.path = old.path
    /\ l.depth = old.depth
    /\ l.owner = old.owner
    /\ Deadline(l) = now + SpecClamp(d)

C5_RefreshAsClaimed ==
    \A tok \in DOMAIN locks, p \in Paths, d \in Durations :
        LET r == lmRefreshLock(locks, tok, p, d)
        IN  (r.ok /\ SpecLive(locks[tok])) =>
                /\ tok \in DOMAIN r.m
                /\ RefreshSets(r.m[tok], locks[tok], d)
                /\ Deadline(r.m[tok]) >= Deadline(locks[tok])

\* C5 amended: a successful refreshLock(token, p, D') on a live lock leaves
\* token, path, depth and owner unchanged and sets the deadline to
\* now + clamp(D', 20s, 300s), which is at least 20 s after now.
C5_Refresh ==
    \A tok \in DOMAIN locks, p \in Paths, d \in Durations :
        LET r == lmRefreshLock(locks, tok, p, d)
        IN  (r.ok /\ SpecLive(locks[tok])) =>
                /\ tok \in DOMAIN r.m
                /\ RefreshSets(r.m[tok], locks[tok], d)
                /\ Deadline(r.m[tok]) >= now + 20

\* A lock has been refreshed after the clock reading it was created at.
C5_Witness ==
    /\ resp.op = "refreshLock" /\ resp.ok
    /\ \E t \in DOMAIN locks : locks[t].modified = now /\ t.stamp < now

(***************************************************************************)
(* C6. createLock(owner, path, depth, duration) fails with Locked iff      *)
(* there is a live lock L such that path is included in (L.path, L.depth)  *)
(* or L.path is included in (path, depth); when it fails no lock is added  *)
(* and every live lock is left unchanged, and when no such L exists it     *)
(* succeeds and stores exactly one new lock.                               *)
(***************************************************************************)
C6_CreateLock ==
    \A o \in Owners, p \in Paths, depth \in Depths, d \in Durations :
        \A r \in lmCreateLock(locks, o, p, depth, d) :
            /\ ~r.ok => /\ SpecCrossing(p, depth)
                        /\ Stored(r.m) \subseteq Stored(locks)
                        /\ \A l \in LiveLocks : l \in Stored(r.m)
            /\ r.ok => /\ ~SpecCrossing(p, depth)
                       /\ Cardinality(Stored(r.m) \ Stored(locks)) = 1

\* What holds of createLock: the same with the relation Included computes
\* and with the locks that lock.expired does not report expired.
CodeCrossing(p, depth) ==
    \E t \in DOMAIN locks :
        /\ now <= locks[t].modified + locks[t].duration
        /\ \/ Included(p, locks[t].path, locks[t].depth).ok
           \/ Included(locks[t].path, p, depth).ok

C6_CreateLockByIncluded ==
    \A o \in Owners, p \in Paths, depth \in Depths, d \in Durations :
        \A r \in lmCreateLock(locks, o, p, depth, d) :
            /\ ~r.ok => /\ CodeCrossing(p, depth)
                        /\ Stored(r.m) \subseteq Stored(locks)
                        /\ \A l \in LiveLocks : l \in Stored(r.m)
            /\ r.ok => /\ ~CodeCrossing(p, depth)
                       /\ Cardinality(Stored(r.m) \ Stored(locks)) = 1

(***************************************************************************)
(* C7. Precondition short-circuit: for every method, unknown methods       *)
(* included, when the If header of the request is evaluated and is false   *)
(* against the target path, the response is 412, no handler runs, and the  *)
(* filesystem and the set of live locks are as before the request.         *)
(***************************************************************************)
C7_PreconditionShortCircuit ==
    Serving =>
        \A method \in Methods : \A req \in Requests(method) :
            Fails(req) =>
                \A o \in ServeHTTP(req, files, locks) :
                    /\ o.code = 412
                    /\ o.files = files
                    /\ LiveLocksOf(o.locks) = LiveLocks
                    /\ o.token = <<>> /\ o.body = <<>>

\* A DELETE of a file, sent with an If header naming an expired lock, has
\* been answered 412: the evaluation of the header has dropped the expired
\* lock, and the file is still there.
C7_Witness ==
    /\ resp.op = "DELETE" /\ resp.code = 412 /\ resp.cond
    /\ resp.path \in DOMAIN files
    /\ ~files[resp.path].dir
    /\ locks = <<>>

(***************************************************************************)
(* C8. PUT result: an authorized PUT on p answers 405 and changes nothing  *)
(* when p is an existing directory; truncates the file, stores the body    *)
(* and answers 204 when p is an existing file; creates the file, stores    *)
(* the body and answers 201 when p does not exist and its parent does;     *)
(* answers 409 and creates nothing when p and its parent do not exist.     *)
(***************************************************************************)
PutResult(req, o) ==
    LET p == Target(req)
    IN  IF p \in DOMAIN files
        THEN IF files[p].dir
             THEN o.code = 405 /\ o.files = files
             ELSE /\ o.code = 204
                  /\ p \in DOMAIN o.files /\ SameBut(o.files, p)
                  /\ ~o.files[p].dir /\ o.files[p].data = req.body.data
                  /\ o.files[p].p = files[p].p
        ELSE IF Dir(p) \in DOMAIN files
             THEN /\ o.code = 201
                  /\ p \in DOMAIN o.files /\ SameBut(o.files, p)
                  /\ ~o.files[p].dir /\ o.files[p].data = req.body.data
             ELSE o.code = 409 /\ o.files = files

C8_PutResult ==
    Serving =>
        \A req \in Requests("PUT") :
            Passes(req) =>
                \A o \in ServeHTTP(req, files, locks) : o.code # 423 => PutResult(req, o)

\* A PUT has replaced the content of an existing file by an empty body.
C8_Witness ==
    /\ resp.op = "PUT" /\ resp.code = 204
    /\ resp.path \in DOMAIN files
    /\ files[resp.path].data = <<>>
    /\ files[resp.path].lastModified # ZeroTime

(***************************************************************************)
(* C9. Scenario S2, as claimed: from an empty backend, after LOCK p        *)
(* (exclusive write, Depth 0) on the nonexistent p has returned 201 with   *)
(* Lock-Token <T> and a PUT p without If has been answered 423, a PUT p    *)
(* with If: (<T>) and a body is answered 201.                              *)
(***************************************************************************)
\* The first request of the scenario has been answered: the LOCK has left
\* the lock t of depth 0 on p and the empty file p in the empty backend.
S2AfterLock(p, t) ==
    /\ served = 1
    /\ resp.op = "LOCK" /\ resp.code = 201 /\ resp.path = p
    /\ DOMAIN locks = {t} /\ locks[t].path = p /\ locks[t].depth = 0
    /\ SpecLive(locks[t])
    /\ DOMAIN files = {Root, p}
    /\ files[p] = newMemFile(FALSE)

S2DeniedPut(p) == [Request("PUT", p, NoIf) EXCEPT !.body = Data(<<"x">>)]

S2Put(p, t) == [Request("PUT", p, IfToken(t)) EXCEPT !.body = Data(<<"x">>)]

\* The answers to the third request of the scenario, the second having
\* been answered 423.
S2Answers(p, t) ==
    UNION {ServeHTTP(S2Put(p, t), d.files, d.locks) :
              d \in {o \in ServeHTTP(S2DeniedPut(p), files, locks) : o.code = 423}}

C9_ScenarioS2AsClaimed ==
    \A p \in Paths, t \in DOMAIN locks :
        S2AfterLock(p, t) => \A o \in S2Answers(p, t) : o.code = 201

\* C9 amended: the PUT without If is answered 423, and the PUT with
\* If: (<T>) is answered 204 (the LOCK has created the file) and stores the
\* body.
C9_ScenarioS2 ==
    \A p \in Paths, t \in DOMAIN locks :
        S2AfterLock(p, t) =>
            /\ S2Answers(p, t) # {}
            /\ \A o \in S2Answers(p, t) : o.code = 204 /\ o.files[p].data = <<"x">>

\* The last request of the scenario has been answered: the PUT with an If
\* header has stored the body in the file that the lock of depth 0 covers,
\* in the backend that holds nothing else.
C9_Witness ==
    /\ served = 2
    /\ resp.op = "PUT" /\ resp.code = 204 /\ resp.cond
    /\ DOMAIN files = {Root, resp.path}
    /\ files[resp.path].data = <<"x">>
    /\ \E t \in DOMAIN locks :
          /\ DOMAIN locks = {t} /\ locks[t].path = resp.path /\ locks[t].depth = 0
          /\ SpecLive(locks[t])

(***************************************************************************)
(* C10. LOCK create: a successful non-refresh LOCK on p whose parent       *)
(* exists sets the Lock-Token header to the token of the new lock; if p    *)
(* did not exist it is created as an empty non-directory file and the      *)
(* response is 201 (a following GET p returns 200 with an empty body),     *)
(* otherwise the filesystem is unchanged and the response is 200. If the   *)
(* parent of p does not exist the response is 409 and no lock is created.  *)
(***************************************************************************)
NewLockAnswered(req, o) ==
    /\ o.token # <<>>
    /\ o.token[1] \in DOMAIN o.locks
    /\ o.locks[o.token[1]].path = Target(req)
    /\ o.locks[o.token[1]].modified = now
    /\ o.locks[o.token[1]].token = o.token[1]

LockCreate(req, o) ==
    LET p == Target(req)
    IN  IF Dir(p) \notin DOMAIN files
        THEN /\ o.code = 409
             /\ Stored(o.locks) \subseteq Stored(locks)
             /\ o.files = files
        ELSE /\ o.code \in {200, 201, 423}
             /\ o.code \in {200, 201} =>
                    /\ NewLockAnswered(req, o)
                    /\ IF p \notin DOMAIN files
                       THEN /\ o.code = 201
                            /\ o.files = Store(files, p, newMemFile(FALSE))
                            /\ \A g \in ServeHTTP(Request("GET", p, NoIf), o.files, o.locks) :
                                   g.code = 200 /\ g.body = <<>>
                       ELSE o.code = 200 /\ o.files = files

C10_LockCreate ==
    Serving =>
        \A req \in Requests("LOCK") :
            (Passes(req) /\ ParseLock(req.body).err = "" /\ ~ParseLock(req.body).Refresh) =>
                \A o \in ServeHTTP(req, files, locks) : LockCreate(req, o)

\* A LOCK on a path that did not exist has been answered 201: the new lock
\* is stored and the path is an empty file.
C10_Witness ==
    /\ resp.op = "LOCK" /\ resp.code = 201
    /\ \E t \in DOMAIN locks : locks[t].path = resp.path /\ locks[t].modified = now
    /\ resp.path \in DOMAIN files
    /\ files[resp.path] = newMemFile(FALSE)

(***************************************************************************)
(* C11. UNLOCK effect: an UNLOCK on p with Lock-Token t removes a lock iff *)
(* t is the token of a live lock whose scope includes p; then exactly that *)
(* lock is removed, and a following PUT on p without an If header is not   *)
(* answered 423; otherwise the response is 400 and no live lock is removed *)
(* or modified.                                                            *)
(***************************************************************************)
\* The Lock-Token of the request is the token of a live lock whose scope
\* includes the target, by the data-model relation.
SpecLocks(req) ==
    /\ req.LockToken # <<>>
    /\ req.LockToken[1] \in DOMAIN locks
    /\ SpecLive(locks[req.LockToken[1]])
    /\ IncludedIn(Target(req), locks[req.LockToken[1]].path, locks[req.LockToken[1]].depth)

\* The same with the relation Included computes and lock.expired.
CodeLocks(req) ==
    /\ req.LockToken # <<>>
    /\ CodeCovers(req.LockToken[1], Target(req))

FollowingPut(req) == [Request("PUT", Target(req), NoIf) EXCEPT !.body = Data(<<"y">>)]

\* What the answer o to the UNLOCK req is to be when covered tells that the
\* token locks the target.
UnlockEffect(req, o, covered) ==
    IF covered
    THEN /\ req.LockToken[1] \notin DOMAIN o.locks
         /\ LiveLocksOf(o.locks) = LiveLocks \ {locks[req.LockToken[1]]}
         /\ o.files = files
         /\ \A g \in ServeHTTP(FollowingPut(req), o.files, o.locks) : g.code # 423
    ELSE /\ o.code = 400
         /\ LiveLocksOf(o.locks) = LiveLocks
         /\ o.files = files

C11_UnlockEffect ==
    Serving =>
        \A req \in Requests("UNLOCK") :
            Passes(req) =>
                \A o \in ServeHTTP(req, files, locks) : UnlockEffect(req, o, SpecLocks(req))

\* What holds of UNLOCK: the same with the relation Included computes and
\* with the locks that lock.expired does not report expired.
C11_UnlockEffectByIncluded ==
    Serving =>
        \A req \in Requests("UNLOCK") :
            Passes(req) =>
                \A o \in ServeHTTP(req, files, locks) :
                    /\ CodeLocks(req) => req.LockToken[1] \notin DOMAIN o.locks
                    /\ Stored(o.locks) =
                           {l \in Stored(locks) :
                               /\ ~expired(l)
                               /\ CodeLocks(req) => l # locks[req.LockToken[1]]}
                          \cup {l \in Stored(o.locks) : expired(l)}
                    /\ Stored(o.locks) \subseteq Stored(locks)
                    /\ o.files = files
                    /\ CodeLocks(req) =>
                           \A g \in ServeHTTP(FollowingPut(req), o.files, o.locks) : g.code # 423
                    /\ ~CodeLocks(req) => o.code = 400

(***************************************************************************)
(* C12. UNLOCK status: an UNLOCK whose Lock-Token currently locks the      *)
(* target path is answered 204.                                            *)
(***************************************************************************)
C12_UnlockStatus ==
    Serving =>
        \A req \in Requests("UNLOCK") :
            (Passes(req) /\ SpecLocks(req) /\ CodeLocks(req)) =>
                \A o \in ServeHTTP(req, files, locks) : o.code = 204

\* What holds: no status is written, so the answer is the 200 of net/http.
C12_UnlockStatusUnwritten ==
    Serving =>
        \A req \in Requests("UNLOCK") :
            (Passes(req) /\ CodeLocks(req)) =>
                \A o \in ServeHTTP(req, files, locks) : o.code = 200

(***************************************************************************)
(* C13. DELETE status: an authorized DELETE that removes its target        *)
(* without any per-path error is answered 204, both when the target is a   *)
(* non-directory file and when it is a directory; afterwards a GET of the  *)
(* target is answered 404.                                                 *)
(***************************************************************************)
\* The answer o to the DELETE req has removed the target, no path failing.
Deleted(req, o) ==
    /\ Target(req) \in DOMAIN files
    /\ Target(req) \notin DOMAIN o.files
    /\ o.code # 207

GetAfter(req, o) == ServeHTTP(Request("GET", Target(req), NoIf), o.files, o.locks)

C13_DeleteStatus ==
    Serving =>
        \A req \in Requests("DELETE") :
            Passes(req) =>
                \A o \in ServeHTTP(req, files, locks) :
                    Deleted(req, o) =>
                        /\ o.code = 204
                        /\ \A g \in GetAfter(req, o) : g.code = 404

\* What holds: 204 for a directory, whose subtree is removed with it, the
\* unwritten status 200 for a non-directory file, and 404 for the GET.
C13_DeleteStatusOfDirectory ==
    Serving =>
        \A req \in Requests("DELETE") :
            Passes(req) =>
                \A o \in ServeHTTP(req, files, locks) :
                    Deleted(req, o) =>
                        /\ o.code = IF files[Target(req)].dir THEN 204 ELSE 200
                        /\ DOMAIN o.files =
                               {q \in DOMAIN files :
                                   IF files[Target(req)].dir THEN ~InTree(q, Target(req))
                                   ELSE q # Target(req)}
                        /\ \A g \in GetAfter(req, o) : g.code = 404

(***************************************************************************)
(* C14. COPY/MOVE authorization: the write-authorization check is applied  *)
(* to the source path exactly when the method is MOVE (a COPY from a       *)
(* locked source without its token is not rejected for that reason), and   *)
(* it is always applied to the destination path; whenever a required check *)
(* fails the response is 423 and CopyTo is never invoked, so the           *)
(* filesystem is unchanged.                                                *)
(***************************************************************************)
\* The checks handleCopyOrMove is to make, told by the locks held: on the
\* source for MOVE, before the Destination header is read, and on the
\* destination once the header is accepted.
SourceDenied(req) == req.method = "MOVE" /\ CodeDenied(req.If, Target(req))

DestinationDenied(req) == HasDestination(req) /\ CodeDenied(req.If, Destination(req))

C14_CopyMoveAuthorization ==
    Serving =>
        \A method \in {"COPY", "MOVE"} : \A req \in Requests(method) :
            Passes(req) =>
                \A o \in ServeHTTP(req, files, locks) :
                    /\ o.code = 423 <=> (SourceDenied(req) \/ DestinationDenied(req))
                    /\ o.code = 423 => o.files = files

\* A LOCK has been answered and its lock covers the source of a COPY
\* without If header whose destination is free: the COPY is answered 201,
\* and the same request as a MOVE is answered 423 and changes no file.
C14_Witness ==
    /\ resp.op = "LOCK" /\ resp.ok
    /\ \E req \in Requests("COPY") :
           /\ Passes(req) /\ ~req.If.present
           /\ \E t \in DOMAIN locks : CodeCovers(t, Target(req))
           /\ HasDestination(req) /\ ~DestinationDenied(req)
           /\ \A o \in ServeHTTP(req, files, locks) : o.code = 201
           /\ \A o \in ServeHTTP([req EXCEPT !.method = "MOVE"], files, locks) :
                  o.code = 423 /\ o.files = files

(***************************************************************************)
(* C15. COPY/MOVE outcome: an authorized COPY or MOVE responds 201 when    *)
(* the destination did not exist before the request and 204 when it        *)
(* existed and the overwrite flag is true; it fails with 412 when the      *)
(* destination exists and Overwrite is F, with 403 when source equals      *)
(* destination, and with 405 when a directory is moved with a finite       *)
(* Depth; in every failing case the filesystem is left exactly as it was,  *)
(* and after a successful overwriting COPY of a file the destination       *)
(* content equals the source content.                                      *)
(***************************************************************************)
\* The request is a COPY or MOVE that reaches CopyTo.
Authorized(req) ==
    /\ Passes(req)
    /\ HasDestination(req)
    /\ ~SourceDenied(req)
    /\ ~DestinationDenied(req)

Overwrites(req) == extractContext(req).overwrite /\ Destination(req) \in DOMAIN files

\* The outcome o of the authorized COPY or MOVE req, the failures taken in
\* the order CopyTo tests them; of a missing source or a missing parent of
\* the destination it is only asked that they fail.
CopyMoveOutcome(req, o) ==
    LET src == Target(req)
        dst == Destination(req)
        failed == o.code \notin {201, 204}
    IN  /\ failed => o.files = files
        /\ IF src = dst THEN o.code = 403
           ELSE IF src \notin DOMAIN files THEN failed
           ELSE IF files[src].dir /\ req.method = "MOVE" /\ extractContext(req).depth >= 0
           THEN o.code = 405
           ELSE IF Dir(dst) \notin DOMAIN files THEN failed
           ELSE IF dst \in DOMAIN files /\ ~extractContext(req).overwrite THEN o.code = 412
           ELSE /\ o.code = IF dst \in DOMAIN files THEN 204 ELSE 201
                /\ (req.method = "COPY" /\ ~files[src].dir /\ Overwrites(req)) =>
                       /\ dst \in DOMAIN o.files
                       /\ o.files[dst].data = files[src].data

C15_CopyMoveOutcome ==
    Serving =>
        \A method \in {"COPY", "MOVE"} : \A req \in Requests(method) :
            Authorized(req) =>
                \A o \in ServeHTTP(req, files, locks) : CopyMoveOutcome(req, o)

\* The destination is overwritten and the source lies inside its tree:
\* removing the destination removes the source before anything is copied.
Engulfed(req) ==
    /\ Overwrites(req)
    /\ Target(req) # Destination(req)
    /\ InTree(Target(req), Destination(req))

\* What holds: the outcome is as claimed unless the overwritten destination
\* holds the source, and then the answer is 204 all the same and the tree
\* of the destination, the source with it, is gone.
C15_CopyMoveOutcomeApart ==
    Serving =>
        \A method \in {"COPY", "MOVE"} : \A req \in Requests(method) :
            Authorized(req) =>
                \A o \in ServeHTTP(req, files, locks) :
                    IF Engulfed(req) /\ Target(req) \in DOMAIN files
                          /\ ~(files[Target(req)].dir /\ req.method = "MOVE"
                                   /\ extractContext(req).depth >= 0)
                    THEN /\ o.code = 204
                         /\ o.files = removeSubtree(files, Destination(req))
                    ELSE CopyMoveOutcome(req, o)

(***************************************************************************)
(* C16. COPY semantics: after any successful COPY of /a to /b with Depth   *)
(* infinity (for every pair of distinct paths a, b and either overwrite    *)
(* setting), every file that was in-tree of /a before the request has a    *)
(* counterpart at the corresponding relative path under /b, and the source *)
(* subtree (the set of files in-tree of /a, their contents and properties) *)
(* is the same as before the request.                                      *)
(***************************************************************************)
\* The path under b that corresponds to q, a path in-tree of a.
Counterpart(q, a, b) == Join(b, SubSeq(q, Len(a) + 1, Len(q)))

Subtree(F, a) == {q \in DOMAIN F : InTree(q, a)}

\* The request is a COPY or MOVE of Depth infinity between distinct paths,
\* and o answers it with success.
Succeeds(req, o) ==
    /\ Authorized(req)
    /\ extractContext(req).depth = -1
    /\ Target(req) # Destination(req)
    /\ o.code \in {201, 204}

\* Every file in-tree of the source has its counterpart under the
\* destination, a directory for a directory, with its data and properties.
Counterparts(req, o) ==
    \A q \in Subtree(files, Target(req)) :
        LET r == Counterpart(q, Target(req), Destination(req))
        IN  /\ r \in DOMAIN o.files
            /\ o.files[r].dir = files[q].dir
            /\ o.files[r].data = files[q].data
            /\ o.files[r].p = files[q].p

C16_CopySemantics ==
    Serving =>
        \A req \in Requests("COPY") :
            \A o \in ServeHTTP(req, files, locks) :
                Succeeds(req, o) =>
                    /\ Counterparts(req, o)
                    /\ Subtree(o.files, Target(req)) = Subtree(files, Target(req))
                    /\ \A q \in Subtree(files, Target(req)) : o.files[q] = files[q]

\* What holds: the same unless the overwritten destination holds the
\* source; and the files outside the trees of the source and of the
\* destination are as before.
C16_CopySemanticsApart ==
    Serving =>
        \A req \in Requests("COPY") :
            \A o \in ServeHTTP(req, files, locks) :
                (Succeeds(req, o) /\ ~Engulfed(req)) =>
                    /\ Counterparts(req, o)
                    /\ Subtree(o.files, Target(req)) = Subtree(files, Target(req))
                    /\ \A q \in Subtree(files, Target(req)) : o.files[q] = files[q]
                    /\ \A q \in DOMAIN files \cup DOMAIN o.files :
                           ~InTree(q, Destination(req)) =>
                               /\ q \in DOMAIN files /\ q \in DOMAIN o.files
                               /\ o.files[q] = files[q]

(***************************************************************************)
(* C17. MOVE semantics: after any successful MOVE of /a to /b with Depth   *)
(* infinity, every file that was in-tree of /a before the request exists   *)
(* at the corresponding relative path under /b, and no file that was       *)
(* in-tree of /a remains at its old path (the source subtree is removed).  *)
(***************************************************************************)
C17_MoveSemantics ==
    Serving =>
        \A req \in Requests("MOVE") :
            \A o \in ServeHTTP(req, files, locks) :
                Succeeds(req, o) =>
                    /\ Counterparts(req, o)
                    /\ Subtree(o.files, Target(req)) = {}

\* What holds: the same unless the overwritten destination holds the
\* source; each file moved is the file it was, last modification included.
C17_MoveSemanticsApart ==
    Serving =>
        \A req \in Requests("MOVE") :
            \A o \in ServeHTTP(req, files, locks) :
                (Succeeds(req, o) /\ ~Engulfed(req)) =>
                    /\ Counterparts(req, o)
                    /\ Subtree(o.files, Target(req)) = {}
                    /\ \A q \in Subtree(files, Target(req)) :
                           o.files[Counterpart(q, Target(req), Destination(req))] = files[q]

(***************************************************************************)
(* C18. Property idempotence: a single PROPPATCH whose body sets k=v and   *)
(* then removes k leaves the file with no user property k, and a single    *)
(* PROPPATCH whose body removes k and then sets k=v also leaves the file   *)
(* with no user property k.                                                *)
(***************************************************************************)
SetThenRemove == [kind |-> "proppatch", blocks |-> <<Set("k", "v"), Rem("k")>>]

RemoveThenSet == [kind |-> "proppatch", blocks |-> <<Rem("k"), Set("k", "v")>>]

\* The PROPPATCH req reaches PatchProp: its target exists and it is let
\* through by the lock check.
Patches(req) ==
    /\ Passes(req)
    /\ Target(req) \in DOMAIN files
    /\ ~CodeDenied(req.If, Target(req))

HasProp(F, p, k) == p \in DOMAIN F /\ k \in DOMAIN F[p].p

\* The statement as claimed: in either order no property k is left.
C18_PropertyIdempotenceAsClaimed ==
    Serving =>
        \A req \in Requests("PROPPATCH") :
            (Patches(req) /\ req.body \in {SetThenRemove, RemoveThenSet}) =>
                \A o \in ServeHTTP(req, files, locks) :
                    o.code = 204 /\ ~HasProp(o.files, Target(req), "k")

\* The statement that holds: the later instruction wins. Set then remove
\* leaves no k; remove then set leaves k = v; the other files and the rest
\* of the file are untouched.
C18_PropertyOrder ==
    Serving =>
        \A req \in Requests("PROPPATCH") :
            (Patches(req) /\ req.body \in {SetThenRemove, RemoveThenSet}) =>
                \A o \in ServeHTTP(req, files, locks) :
                    /\ o.code = 204
                    /\ SameBut(o.files, Target(req))
                    /\ Target(req) \in DOMAIN o.files
                    /\ o.files[Target(req)].data = files[Target(req)].data
                    /\ IF req.body = SetThenRemove
                       THEN ~HasProp(o.files, Target(req), "k")
                       ELSE /\ HasProp(o.files, Target(req), "k")
                            /\ o.files[Target(req)].p["k"] = "v"

\* A PROPPATCH has set k on a file: a PROPPATCH of it that sets k and then
\* removes k leaves no k, and one that removes k and then sets k leaves k.
C18_Witness ==
    /\ resp.op = "PROPPATCH" /\ resp.code = 204
    /\ HasProp(files, resp.path, "k")
    /\ \A o \in ServeHTTP([Request("PROPPATCH", resp.path, NoIf) EXCEPT !.body = SetThenRemove],
                          files, locks) :
           o.code = 204 /\ ~HasProp(o.files, resp.path, "k")
    /\ \A o \in ServeHTTP([Request("PROPPATCH", resp.path, NoIf) EXCEPT !.body = RemoveThenSet],
                          files, locks) :
           o.code = 204 /\ HasProp(o.files, resp.path, "k")

(***************************************************************************)
(* C19. ETag change on write: for every existing file, the ETag observed   *)
(* after any successful PUT to it differs from the ETag observed           *)
(* immediately before that PUT (while successive reads with no intervening *)
(* write observe the same ETag).                                           *)
(***************************************************************************)
\* The PUT req is answered o with success on a file that existed.
PutOnto(req, o) ==
    /\ Passes(req)
    /\ Target(req) \in DOMAIN files
    /\ ~files[Target(req)].dir
    /\ o.code = 204

\* A read: a GET leaves the files, and with them every ETag, as they were.
ReadsKeepETag ==
    \A req \in Requests("GET") :
        \A o \in ServeHTTP(req, files, locks) :
            \A q \in DOMAIN files :
                q \in DOMAIN o.files /\ etag(Stat(o.files[q])) = etag(Stat(files[q]))

C19_ETagChange ==
    Serving =>
        /\ ReadsKeepETag
        /\ \A req \in Requests("PUT") :
               \A o \in ServeHTTP(req, files, locks) :
                   PutOnto(req, o) =>
                       etag(Stat(o.files[Target(req)])) # etag(Stat(files[Target(req)]))

\* What holds: the ETag is the size and the time of the last modification,
\* so a PUT changes it when the size changes or the clock has moved since
\* the last write, and only then.
C19_ETagChangeBySizeOrTime ==
    Serving =>
        /\ ReadsKeepETag
        /\ \A req \in Requests("PUT") :
               \A o \in ServeHTTP(req, files, locks) :
                   PutOnto(req, o) =>
                       (etag(Stat(o.files[Target(req)])) # etag(Stat(files[Target(req)])))
                           <=> \/ Len(req.body.data) # Len(files[Target(req)].data)
                               \/ files[Target(req)].lastModified # now

(***************************************************************************)
(* C20. If-header parse failure: a request whose If header does not parse  *)
(* (unterminated bracket, empty ETag [], empty bare token, missing '(' or  *)
(* ')') is answered with HTTP 400, for every method, and no method handler *)
(* runs.                                                                   *)
(***************************************************************************)
\* The header of the request does not parse.
Unparsed == header # <<>> /\ ParseIfTag(header).err # ""

\* Every request with the header, to every path but the dump, is answered
\* code and leaves the files and the locks as they were.
Rejected(code) ==
    \A method \in Methods : \A u \in Paths :
        \A o \in ServeHTTP(Request(method, u, IfText(header)), files, locks) :
            o.code = code /\ o.files = files /\ o.locks = locks

C20_IfParseFailure == Unparsed => Rejected(400)

\* What holds: the error of the parser is no webdav Error, and errorHeader
\* answers 500; no handler runs.
C20_IfParseFailureAnswered500 == Unparsed => Rejected(500)

\* "([a", "([])", "(<>)", "a)", "(a" and "([a]": the failures the claim
\* lists are failures of the parser.
FailureModes ==
    {<<"(", "[", "a">>, <<"(", "[", "]", ")">>, <<"(", "<", ">", ")">>,
     <<"a", ")">>, <<"(", "a">>, <<"(", "[", "a", "]">>}

C20_FailureModes ==
    /\ FailureModes \subseteq Headers
    /\ header \in FailureModes => Unparsed

\* ---- C21 ----------------------------------------------------------------

\* The conditions an If header is built of: the token of a stored lock or an
\* unknown one, the current ETag of "/d/f" or a stale one, plain or negated.
EvalConditions ==
    {Cond(n, <<t>>, <<>>) : n \in BOOLEAN, t \in Tokens}
        \cup {Cond(n, <<>>, e) : n \in BOOLEAN, e \in {StaleETag} \cup ({ETag(files, PathDF)} \ {<<>>})}

\* The lists: one condition, untagged or tagged with "/d", or two conditions.
EvalLists ==
    {List(r, <<c>>) : r \in {<<>>, PathD}, c \in EvalConditions}
        \cup {List(<<>>, <<c, d>>) : c \in EvalConditions, d \in EvalConditions}

\* The headers: one list, or two lists of one condition each.
EvalHeaders ==
    {<<l>> : l \in EvalLists}
        \cup {<<k, l>> : k \in {x \in EvalLists : Len(x.Conditions) = 1},
                         l \in {x \in EvalLists : Len(x.Conditions) = 1}}

\* A condition holds against a resource, as the claim words it.
Holds(c, r) ==
    IF c.State # <<>>
    THEN lmIsLocked(locks, r, c.State[1]).ok # c.Not
    ELSE (ETag(files, r) = c.ETag) # c.Not

\* A list is satisfied for the default resource rdef.
Satisfied(l, rdef) ==
    \A i \in 1..Len(l.Conditions) :
        Holds(l.Conditions[i], IF l.Resource # <<>> THEN l.Resource ELSE rdef)

\* C21: IfTag.Eval answers true exactly when some list is satisfied, a list
\* being satisfied when each of its conditions holds against the list's own
\* resource, or against the default resource when the list has none.
C21_ConditionEvaluation ==
    \A h \in EvalHeaders :
        IfTagEval(h, files, locks, PathDF).ok <=> \E i \in 1..Len(h) : Satisfied(h[i], PathDF)

\* A live lock on "/d" alone covers "/d" and not "/d/f", so that a list tagged
\* "/d" is satisfied while the first, untagged, list is not.
C21_Witness ==
    \E t \in DOMAIN locks :
        /\ ~expired(locks[t])
        /\ lmIsLocked(locks, PathD, t).ok
        /\ ~lmIsLocked(locks, PathDF, t).ok
        /\ Lookup(files, ForPath(PathDF).path)
        /\ LET h == <<List(<<>>, <<Cond(FALSE, <<t>>, <<>>)>>),
                      List(PathD, <<Cond(FALSE, <<t>>, <<>>)>>)>>
           IN  /\ h \in EvalHeaders
               /\ IfTagEval(h, files, locks, PathDF).ok
               /\ ~Satisfied(h[1], PathDF)

\* ---- C22 ----------------------------------------------------------------

\* The goroutines whose call has returned, and the states in which no call
\* is under way.
Done == {i \in Procs : calls[i].pc = "returned"}

Quiet == \A i \in Procs : calls[i].pc \in {"idle", "returned"}

\* The place of an event in the history.
At(e, i) == CHOOSE k \in 1..Len(history.events) : history.events[k] = Event(e, i)

\* The call of i returned before the call of j was made.
Precedes(i, j) == At("ret", i) < At("call", j)

\* The orders in which the calls that returned can be put one after another.
Orders ==
    {s \in [1..Cardinality(Done) -> Done] : \A a, b \in DOMAIN s : a # b => s[a] # s[b]}

RealTime(s) == \A a, b \in DOMAIN s : Precedes(s[a], s[b]) => a < b

\* What a call returns, and the map it leaves, when it runs alone on m.
Alone(c, m) ==
    CASE c.op = "createLock" ->
             {[ret |-> Returned(r.ok, r.tok), m |-> r.m] :
                  r \in lmCreateLock(m, "o1", c.p, c.depth, c.duration)}
      [] c.op = "refreshLock" ->
             {[ret |-> Returned(r.ok, <<>>), m |-> r.m] :
                  r \in {lmRefreshLock(m, c.tok, c.p, c.duration)}}
      [] c.op = "unlock" -> {[ret |-> Returned(TRUE, <<>>), m |-> lmUnlock(m, c.tok)]}
      [] c.op = "isLocked" ->
             {[ret |-> Returned(r.ok, <<>>), m |-> r.m] : r \in {lmIsLocked(m, c.p, c.tok)}}
      [] c.op = "getLockForPath" ->
             {[ret |-> Returned(r.found, r.tok), m |-> r.m] : r \in lmGetLockForPath(m, c.p)}

\* The maps the calls leave when they run one after another in the order s,
\* from m, and return what they returned.
RECURSIVE Sequentially(_, _)
Sequentially(s, m) ==
    IF s = <<>> THEN {m}
    ELSE UNION {Sequentially(Tail(s), o.m) :
                    o \in {x \in Alone(calls[Head(s)].call, m) : x.ret = calls[Head(s)].ret}}

\* C22: once the concurrent calls have returned, what they returned and the
\* locks they leave are those of the same calls run one after another in
\* some order in which a call that returned before another was made comes
\* first.
C22_Linearizable ==
    Quiet => \E s \in Orders : RealTime(s) /\ locks \in Sequentially(s, history.init)

\* Two calls overlapped: the second was made before the first returned, and
\* the first to take the mutex stored a lock that made the other fail.
C22_Witness ==
    /\ Quiet
    /\ Done = Procs
    /\ \E i, j \in Procs :
          /\ i # j
          /\ ~Precedes(i, j) /\ ~Precedes(j, i)
          /\ calls[i].call.op = "createLock" /\ calls[i].ret.ok
          /\ calls[j].call.op = "createLock" /\ ~calls[j].ret.ok
          /\ calls[i].call.p = calls[j].call.p

\* ---- C23 ----------------------------------------------------------------

\* The LOCK request of the goroutine took a new lock from createLock, and
\* was answered with an error.
LockFailed ==
    /\ calls[1].pc = "answered"
    /\ calls[1].tok # <<>>
    /\ calls[1].code >= 400

\* C23: when a LOCK request that took a new lock is answered with an error,
\* because the creation of the missing resource failed, the lock manager no
\* longer stores that lock.
C23_LockFailureCleanup ==
    LockFailed => calls[1].tok[1] \notin DOMAIN locks

\* The parent was removed, or the resource created, by another request
\* between createLock and Create: the LOCK is answered 409 and its lock is
\* gone.
C23_Witness ==
    /\ LockFailed
    /\ calls[1].code = 409
    /\ calls[1].tok[1] \notin DOMAIN locks

\* ---- C24 ----------------------------------------------------------------

\* The If headers sent with a LOCK for url that has an empty body: those of
\* IfHeaders, the negated token of a stored lock, and a token twice, in two
\* lists or in one.
RefreshIfs(url) ==
    IfHeaders(url)
        \cup {IfNotToken(t) : t \in DOMAIN locks}
        \cup {IfOf(<<List(<<>>, <<Cond(FALSE, <<t>>, <<>>)>>),
                     List(<<>>, <<Cond(FALSE, <<t>>, <<>>)>>)>>) : t \in DOMAIN locks}
        \cup {IfOf(<<List(<<>>, <<Cond(FALSE, <<t>>, <<>>),
                                  Cond(FALSE, <<t>>, <<>>)>>)>>) : t \in DOMAIN locks}

RefreshRequests ==
    UNION {{[Request("LOCK", u, i) EXCEPT !.Timeout = t] :
               i \in RefreshIfs(u), t \in {<<>>, <<Infinite, Second100>>}} : u \in Paths}

\* The If header is exactly one list of exactly one condition, a token that
\* is not negated.
SingleToken(if) ==
    /\ if.present
    /\ Len(if.Lists) = 1
    /\ Len(if.Lists[1].Conditions) = 1
    /\ if.Lists[1].Conditions[1].State # <<>>
    /\ if.Lists[1].Conditions[1].ETag = <<>>
    /\ ~if.Lists[1].Conditions[1].Not

TheToken(if) == if.Lists[1].Conditions[1].State[1]

\* The request is handed to doLock, which finds the parent of its target.
ReachesRefresh(req) == Passes(req) /\ Lookup(files, Dir(Target(req)))

\* The lock t is refreshed for the timeout of the request: it is touched and
\* given the clamped duration, the other locks being left as they are.
Refreshes(req, o, t) ==
    /\ DOMAIN o.locks = DOMAIN locks
    /\ \A u \in DOMAIN locks \ {t} : o.locks[u] = locks[u]
    /\ o.locks[t] = [locks[t] EXCEPT !.modified = now,
                                     !.duration = SpecClamp(extractContext(req).timeout)]

C25_Included ==
    \A t \in DOMAIN locks : \A fn \in Paths :
        Included(fn, locks[t].path, locks[t].depth).ok
            <=> IncludedIn(fn, locks[t].path, locks[t].depth)

\* What holds: Included and the relation agree when the subtree is the root,
\* when fn is the subtree, and when the depth is negative or zero; below
\* another subtree Included counts one segment too many.
C25_IncludedBelowRoot ==
    \A t \in DOMAIN locks : \A fn \in Paths :
        LET l == locks[t]
        IN  /\ (l.path = Root \/ fn = l.path \/ l.depth <= 0) =>
                   (Included(fn, l.path, l.depth).ok <=> IncludedIn(fn, l.path, l.depth))
            /\ (l.path # Root /\ fn # l.path /\ l.depth > 0) =>
                   (Included(fn, l.path, l.depth).ok <=> IncludedIn(fn, l.path, l.depth - 1))

\* ---- C26 ----------------------------------------------------------------

\* The grammar of the If header, read as a recogniser on positions: each
\* operator gives the positions at which what it recognises may end.
\* Whitespace may stand between any two symbols.
SkipBlanks(s, P) ==
    {q \in 1..(Len(s) + 1) : \E p \in P : p <= q /\ \A k \in p..(q - 1) : s[k] = " "}

\* open Text close from q, Text being one rune or more, none of stops.
Bracketed(s, q, close, stops) ==
    {r + 1 : r \in {x \in (q + 2)..Len(s) :
                        s[x] = close /\ \A k \in (q + 1)..(x - 1) : s[k] \notin stops}}

\* BareToken: runes up to ")" or whitespace; it does not open a bracket,
\* unless lax.
BareEnds(s, q, lax) ==
    IF s[q] \in {" ", ")"} \/ (~lax /\ s[q] \in {"<", "["}) THEN {}
    ELSE {r + 1 : r \in {x \in q..Len(s) : \A k \in q..x : s[k] \notin {" ", ")"}}}

\* "[" ETag "]" | "<" Token ">" | BareToken
TokenEnds(s, q, lax) ==
    IF q > Len(s) THEN {}
    ELSE (IF s[q] = "[" THEN Bracketed(s, q, "]", {"]"})
          ELSE IF s[q] = "<" THEN Bracketed(s, q, ">", {" ", ")", ">"})
          ELSE {})
             \cup BareEnds(s, q, lax)

NotAt(s, p) == p + 2 <= Len(s) /\ s[p] = "N" /\ s[p + 1] = "o" /\ s[p + 2] = "t"

\* Cond := "Not"? ( "[" ETag "]" | "<" Token ">" | BareToken )
CondEnds(s, p, lax) ==
    IF NotAt(s, p) THEN UNION {TokenEnds(s, q, lax) : q \in SkipBlanks(s, {p + 3})}
    ELSE TokenEnds(s, p, lax)

\* Cond+, from any position of X, in at most n conditions.
RECURSIVE CondsEnds(_, _, _, _)
CondsEnds(s, X, n, lax) ==
    LET more(Y) == Y \cup CondsEnds(s, Y, n - 1, lax)
    IN  IF n = 0 \/ X = {} THEN {}
        ELSE more(SkipBlanks(s, UNION {CondEnds(s, x, lax) : x \in X}))

\* List := ("<" Resource ">")? "(" Cond+ ")"; Cond* when lax.
ListEnds(s, p, lax) ==
    LET closed(C) == {x + 1 : x \in {y \in C : y <= Len(s) /\ s[y] = ")"}}
        conds(X) == closed(CondsEnds(s, X, Len(s), lax) \cup (IF lax THEN X ELSE {}))
        opened(Q) == UNION {conds(SkipBlanks(s, {q + 1})) :
                               q \in {x \in Q : x <= Len(s) /\ s[x] = "("}}
    IN  IF p > Len(s) THEN {}
        ELSE IF s[p] = "<" THEN opened(SkipBlanks(s, Bracketed(s, p, ">", {">"})))
        ELSE opened({p})

\* The lists, from any position of X, in at most n lists.
RECURSIVE ListsEnds(_, _, _, _)
ListsEnds(s, X, n, lax) ==
    LET more(Y) == Y \cup ListsEnds(s, Y, n - 1, lax)
    IN  IF n = 0 \/ X = {} THEN {}
        ELSE more(SkipBlanks(s, UNION {ListEnds(s, x, lax) : x \in X}))

\* The empty header, or a sequence of lists.
InGrammar(s, lax) ==
    Len(s) + 1 \in SkipBlanks(s, {1}) \cup ListsEnds(s, SkipBlanks(s, {1}), Len(s), lax)

Parses(s) == ParseIfTag(s).err = ""

\* C26: ParseIfTag returns no error exactly for the empty header and for the
\* headers that are a sequence of lists of the grammar, each list holding
\* one condition or more.
C26_ParserAcceptance ==
    resp.op = "init" => (Parses(header) <=> InGrammar(header, FALSE))

\* "foobar", "(a", "(Not a" and "([b"
Malformed ==
    {<<"f", "o", "o", "b", "a", "r">>, <<"(", "a">>, <<"(", "N", "o", "t", " ", "a">>,
     <<"(", "[", "b">>}

\* What holds: every header of the grammar parses; a header that parses is
\* one of the grammar once a list may be empty and a token may start with
\* "<" or "[" without being closed; the malformed headers of the claim do
\* not parse.
C26_ParserAcceptanceLax ==
    resp.op = "init" =>
        /\ InGrammar(header, FALSE) => Parses(header)
        /\ Parses(header) => InGrammar(header, TRUE)
        /\ \A s \in Malformed : ~Parses(s) /\ ~InGrammar(s, FALSE)

\* ---- C27 ----------------------------------------------------------------

C27_ExpirationSweepPastDeadline ==
    [][now' = now => \A t \in DOMAIN locks' : now' <= Deadline(locks'[t])]_vars

TreatedAs(t, live) ==
    /\ lmIsLocked(locks, locks[t].path, t).ok = live
    /\ (\E r \in lmGetLockForPath(locks, locks[t].path) : r.found /\ r.tok = <<t>>) = live
    /\ lmRefreshLock(locks, t, locks[t].path, 1).ok = live
    /\ DOMAIN locks = {t} =>
           \A r \in lmCreateLock(locks, "o1", locks[t].path, 0, 1) : r.ok = ~live

\* C28: a lock is treated as live by every operation of the lock manager
\* exactly while now < modified + duration; at now = modified + duration it
\* is expired.
C28_LivenessBoundary ==
    \A t \in DOMAIN locks : TreatedAs(t, now < Deadline(locks[t]))

\* What holds: the lock is live up to and including its deadline, and
\* expired after it.
C28_LivenessBoundaryIncluded ==
    \A t \in DOMAIN locks : TreatedAs(t, now <= Deadline(locks[t]))

\* ---- C29 ----------------------------------------------------------------

\* C29: whatever the requests served, every lock the lock manager stores has
\* depth 0 or -1 (unbounded).
C29_LockDepth == \A t \in DOMAIN locks : locks[t].depth \in {0, -1}

\* What holds: a LOCK that stores a lock stores it with the depth parseDepth
\* read in its Depth header, whatever that is.
C29_LockDepthAsSent ==
    Serving =>
        \A req \in Requests("LOCK") : \A o \in ServeHTTP(req, files, locks) :
            \A t \in DOMAIN o.locks \ DOMAIN locks :
                o.locks[t].depth = parseDepth(req.Depth).depth

\* ---- C30 ----------------------------------------------------------------

\* The first usable entry of the Timeout header, in seconds, as the claim
\* reads it: the first "Second-N" among the entries; 1 when there is none.
RECURSIVE SpecTimeout(_)
SpecTimeout(opts) ==
    IF opts = <<>> THEN 1
    ELSE IF HasPrefix(Head(opts), SecondDash)
            /\ Atoi(SubSeq(Head(opts), Len(SecondDash) + 1, Len(Head(opts)))).ok
         THEN Atoi(SubSeq(Head(opts), Len(SecondDash) + 1, Len(Head(opts)))).n
         ELSE SpecTimeout(Tail(opts))

\* C30: a LOCK that stores or refreshes a lock gives it the duration its
\* Timeout header asks for, clamped to [20 s, 300 s]: "Second-100" gives
\* 100 s, no header 20 s.
C30_Timeout ==
    Serving =>
        \A req \in Requests("LOCK") : \A o \in ServeHTTP(req, files, locks) :
            \A t \in DOMAIN o.locks :
                (t \notin DOMAIN locks \/ o.locks[t] # locks[t]) =>
                    o.locks[t].duration = SpecClamp(SpecTimeout(req.Timeout))

\* What holds: every lock a LOCK stores or refreshes has the duration of 20
\* seconds, whatever its Timeout header; every stored lock has a duration
\* within [20 s, 300 s].
C30_TimeoutIgnored ==
    /\ \A t \in DOMAIN locks : locks[t].duration >= 20 /\ locks[t].duration <= 300
    /\ Serving =>
           \A req \in Requests("LOCK") : \A o \in ServeHTTP(req, files, locks) :
               \A t \in DOMAIN o.locks :
                   (t \notin DOMAIN locks \/ o.locks[t] # locks[t]) =>
                       o.locks[t].duration = 20

\* ---- C31 ----------------------------------------------------------------

\* C31: a createLock that succeeds returns a token that no stored lock has,
\* also when a stored lock was created at the same clock reading, and so
\* leaves every live lock stored as it was.
C31_TokenUniqueness ==
    [][(now' = now /\ resp'.op = "createLock" /\ resp'.ok) =>
           /\ issued'.token \notin DOMAIN locks
           /\ \A t \in liveIn(locks) : t \in DOMAIN locks' /\ locks'[t] = locks[t]]_vars

\* What holds: the token is the clock reading, formatted; it differs from the
\* token of every stored lock that was created at another clock reading, and
\* then no live lock is replaced or dropped.
C31_TokenOfClock ==
    [][(/\ now' = now /\ resp'.op = "createLock" /\ resp'.ok
        /\ \A t \in DOMAIN locks : t.stamp # now) =>
           /\ issued'.token \notin DOMAIN locks
           /\ \A t \in liveIn(locks) : t \in DOMAIN locks' /\ locks'[t] = locks[t]]_vars

\* ---- C32 ----------------------------------------------------------------

\* The fields of the lock record the statement the goroutine i executes next
\* reads (write FALSE) or writes (write TRUE).
Access(field, write) == [field |-> field, write |-> write]

Accesses(i) ==
    CASE calls[i].pc = "assign" -> {Access("duration", TRUE)}
      [] calls[i].pc = "stamp" -> {Access("modified", TRUE)}
      [] calls[i].pc \in {"render", "String"} ->
             {Access("duration", FALSE), Access("modified", FALSE)}
      [] OTHER -> {}

\* Two goroutines are about to access the same field, one of them writing.
Racing(i, j) ==
    /\ i # j
    /\ \E a \in Accesses(i), b \in Accesses(j) : a.field = b.field /\ (a.write \/ b.write)

\* C32: a goroutine that reads or writes l.duration or l.modified holds l.m,
\* so that the read of toXML never runs together with a write of
\* refreshLock.
C32_RecordMutex ==
    /\ \A i \in Procs : Accesses(i) # {} => lock_m = i
    /\ \A i, j \in Procs : ~Racing(i, j)

\* What holds: touch and toXML access the fields holding l.m, so the write
\* of l.modified never runs together with the read of toXML.
C32_RecordMutexOfTouch ==
    /\ \A i \in Procs : calls[i].pc \in {"stamp", "render"} => lock_m = i
    /\ \A i, j \in Procs : ~(calls[i].pc = "stamp" /\ calls[j].pc = "render")

\* The race: one goroutine is at l.duration = duration in refreshLock while
\* another, inside toXML with l.m held, is about to read l.duration.
C32_RaceWithToXml ==
    \A i, j \in Procs : ~(calls[i].pc = "assign" /\ calls[j].pc = "render")

\* ---- C33 ----------------------------------------------------------------

\* The goroutine i leaves the second critical section of Mkdir or Create
\* with the error err ("" when the entry was stored).
Leaves(i, err) ==
    /\ calls[i].pc = "absent"
    /\ calls'[i].pc # "absent"
    /\ calls'[i].err = err

\* C33: Mkdir and Create never store over an entry that exists, which is
\* left as it was, and of the calls running at once on a path that was
\* absent at most one succeeds; they fail with MissingParent when the parent
\* is absent.
C33_CreateExclusive ==
    [][\A i \in Procs :
           /\ Leaves(i, "") => /\ ~Lookup(files, calls[i].p)
                               /\ \A q \in DOMAIN files : files'[q] = files[q]
                               /\ \A j \in Procs \ {i} :
                                      ~(calls[j].p = calls[i].p /\ calls[j].stored)
           /\ Leaves(i, "MissingParent") <=>
                  (calls[i].pc = "absent" /\ calls'[i].pc # "absent"
                   /\ ~Lookup(files, Dir(calls[i].p)))]_vars

\* What holds: a call that finds the target when it looks it up fails with
\* Conflict; one that does not find it fails with MissingParent exactly when
\* the parent is absent as it stores, and stores its entry otherwise,
\* whatever the path holds by then.
C33_CreateChecks ==
    [][\A i \in Procs :
           /\ (calls[i].pc = "called" /\ calls'[i].pc # "called") =>
                  (calls'[i].err = "Conflict") = Lookup(files, calls[i].p)
           /\ Leaves(i, "MissingParent") <=>
                  (calls[i].pc = "absent" /\ calls'[i].pc # "absent"
                   /\ ~Lookup(files, Dir(calls[i].p)))
           /\ Leaves(i, "") => /\ Lookup(files, Dir(calls[i].p))
                               /\ Lookup(files', calls[i].p)
                               /\ files'[calls[i].p] = newMemFile(calls[i].op = "Mkdir")]_vars

\* ---- C34 ----------------------------------------------------------------

\* The live locks whose scope, as Included decides it, includes q.
Covering(q) == {t \in liveIn(locks) : Included(q, locks[t].path, locks[t].depth).ok}

\* C34: at most one live lock includes a path, so all the orders in which
\* getLockForPath may go through the map give the same answer.
C34_UniqueCoveringLock ==
    \A q \in Paths :
        /\ Cardinality(Covering(q)) <= 1
        /\ \A r1, r2 \in lmGetLockForPath(locks, q) : r1.found = r2.found /\ r1.tok = r2.tok

\* Two live locks are stored, and getLockForPath for "/d/f" finds one of them.
C34_Witness ==
    /\ Cardinality(liveIn(locks)) = 2
    /\ Covering(PathDF) # {}
    /\ \E r \in lmGetLockForPath(locks, PathDF) : r.found

\* ---- C35 ----------------------------------------------------------------

\* The live locks that include the target of the goroutine's request; the
\* request carries no token.
CoveringTarget == {t \in liveIn(locks) : Included(calls[1].ctx.p, locks[t].path, locks[t].depth).ok}

\* C35: with requests served in parallel, a PUT, DELETE or MKCOL that did
\* not present the token does not change its target while a live lock,
\* stored by a LOCK that has been answered, covers it.
C35_NoUnauthorizedWrite ==
    [][(At1("checked") /\ calls'[1].pc = "answered" /\ files' # files) =>
           CoveringTarget = {}]_vars

\* What holds: no live lock covers the target when checkCanWrite lets the
\* request through.
C35_AuthorizedAtCheck ==
    [][(At1("idle") /\ calls'[1].pc = "checked") => CoveringTarget = {}]_vars

\* ---- C36 ----------------------------------------------------------------

\* The If header of the request holds the token t.
Presents(req, t) ==
    /\ req.If.present
    /\ \E i \in 1..Len(GetAllTokens(req.If.Lists)) : GetAllTokens(req.If.Lists)[i] = t

\* Some live lock whose token the request does not present includes q, with
\* the relation Included computes.
HeldAgainst(req, q) == \E t \in DOMAIN locks : CodeCovers(t, q) /\ ~Presents(req, t)

\* C36: a DELETE, COPY or MOVE removes or replaces no resource that a live
\* lock covers unless it presents the token of that lock, the locks on the
\* descendants of its target and of its destination included.
C36_DescendantLocks ==
    Serving =>
        \A method \in {"DELETE", "COPY", "MOVE"} : \A req \in Requests(method) :
            \A o \in ServeHTTP(req, files, locks) :
                \A q \in DOMAIN files :
                    (q \notin DOMAIN o.files \/ o.files[q] # files[q]) => ~HeldAgainst(req, q)

\* What holds: the request changes nothing when such a lock covers the path
\* the lock check is made for, the target of a DELETE or a MOVE and the
\* accepted destination of a COPY or a MOVE.
C36_TargetLocks ==
    Serving =>
        \A method \in {"DELETE", "COPY", "MOVE"} : \A req \in Requests(method) :
            (/\ req.url # Dumpz
             /\ extractContext(req).err = ""
             /\ \/ method # "COPY" /\ HeldAgainst(req, Target(req))
                \/ method # "DELETE" /\ HasDestination(req)
                                     /\ HeldAgainst(req, Destination(req)))
                => \A o \in ServeHTTP(req, files, locks) : o.files = files

\* ---- C37 ----------------------------------------------------------------

\* C37: whatever the requests served, the root collection exists, and every
\* other entry has a parent that exists and is a directory.
C37_TreeWellFormed ==
    /\ Lookup(files, Root)
    /\ \A q \in DOMAIN files \ {Root} : Lookup(files, Dir(q)) /\ files[Dir(q)].dir

\* What holds of the requests served here (a COPY or MOVE goes to a
\* destination outside the tree of its source): every entry other than the
\* root has a parent that exists; the parent may be a file, and the root may
\* be gone, with every other entry.
C37_ParentsExist ==
    /\ \A q \in DOMAIN files \ {Root} : Lookup(files, Dir(q))
    /\ ~Lookup(files, Root) => files = <<>>

\* ---- C38 ----------------------------------------------------------------

\* The lock map of the reference manager, which holds no lock past the
\* instant lock.expired() turns true: the map of the lock manager without
\* its expired locks.
Swept(m) == Without(m, expiredIn(m))

\* What a call shows: its results, and the map the reference manager holds
\* after it.
ShownOf(ok, tok, m) == [ok |-> ok, tok |-> tok, m |-> Swept(m)]

\* The calls, on the map m: all they can show, over the orders in which the
\* map may be gone through.
ShownCreateLock(m, p, depth, duration) ==
    {ShownOf(r.ok, r.tok, r.m) : r \in lmCreateLock(m, "o1", p, depth, duration)}

ShownRefreshLock(m, t, p, duration) ==
    {ShownOf(r.ok, <<>>, r.m) : r \in {lmRefreshLock(m, t, p, duration)}}

ShownIsLocked(m, p, t) == {ShownOf(r.ok, <<>>, r.m) : r \in {lmIsLocked(m, p, t)}}

ShownGetLockForPath(m, p) == {ShownOf(r.found, r.tok, r.m) : r \in lmGetLockForPath(m, p)}

\* C38: every call shows on the map of the lock manager, expired locks
\* included, what it shows on the map of the reference manager, and leaves
\* the two maps in the same relation; so the two managers, started empty and
\* given the same calls and clock advances, return the same results. (The
\* two maps are one when no stored lock is expired.)
C38_LazyExpiry ==
    expiredIn(locks) # {} =>
        /\ \A p \in Paths, d \in Depths, dur \in Durations :
               ShownCreateLock(locks, p, d, dur) = ShownCreateLock(Swept(locks), p, d, dur)
        /\ \A t \in Tokens, p \in Paths, dur \in Durations :
               ShownRefreshLock(locks, t, p, dur) = ShownRefreshLock(Swept(locks), t, p, dur)
        /\ \A t \in Tokens : Swept(lmUnlock(locks, t)) = Swept(lmUnlock(Swept(locks), t))
        /\ \A p \in Paths, t \in Tokens :
               ShownIsLocked(locks, p, t) = ShownIsLocked(Swept(locks), p, t)
        /\ \A p \in Paths : ShownGetLockForPath(locks, p) = ShownGetLockForPath(Swept(locks), p)

\* An isLocked has returned at the clock reading at which a live lock was
\* refreshed, while the map holds an expired lock.
C38_Witness ==
    /\ resp.op = "isLocked"
    /\ expiredIn(locks) # {}
    /\ \E u \in liveIn(locks) : locks[u].modified = now /\ u.stamp < now

====
